---- MODULE Spec2Model ----
(***************************************************************************)
(* A model of the RAG backend's request core (src/rag_engine.py):          *)
(* wait_for_ollama, parse_user_context, parse_task_line,                   *)
(* classify_query_type, get_rag_response and the generate_* / handle_*     *)
(* response builders.                                                      *)
(*                                                                         *)
(* Strings are TLA+ strings, read character by character with SubSeq.      *)
(* The context string is held as the list user_context.split('\n') of its  *)
(* lines: a non-empty sequence of newline-free strings (the empty string   *)
(* is the one-line context <<"">>).                                        *)
(*                                                                         *)
(* TLA+ strings are ASCII, so each glyph of the source stands as one ASCII *)
(* character that no input uses otherwise:                                 *)
(*     bullet U+2022  "*"      arrow U+2192  ">"     arrow U+27A4  "}"     *)
(*     user marker U+1F464  "@"                                            *)
(*     siren U+1F6A8  "!"      calendar U+1F4C5  "#"                       *)
(*     calendar U+1F4C6  "%"   receipt U+1F9FE  "~"                        *)
(* Glyphs that occur only in fixed output text are left out of the text.   *)
(***************************************************************************)
EXTENDS Integers, Sequences, FiniteSets, TLC

VARIABLES
    entry,           \* the function the caller invoked
    pc,              \* the position of the call
    query,           \* the query argument
    user_context,    \* the context argument, as its list of lines
    member_hint,     \* the team_members argument of a direct classify_query_type call
    timeout,         \* the timeout argument of wait_for_ollama
    probes,          \* readiness probes made so far by wait_for_ollama
    probe,           \* how the latest probe ended (None before the first)
    ollama_ready,    \* whether a probe has been answered with status 200
    line_num,        \* lines of the context consumed by parse_user_context
    current_section, \* parse_user_context's current_section
    current_user,    \* parse_user_context's current_user
    parsed_data,     \* parse_user_context's parsed_data (NoRecord before it is built)
    branches,        \* per line consumed, the branch of the loop body it took
    query_type,      \* classify_query_type's return value (None before it returns)
    clock,           \* the dates datetime.utcnow() and datetime.now() fall on
    llm_calls,       \* the outcomes of the invocations of the external language model
    result,          \* what the call returned or raised
    previous,        \* what the previous call of parse_user_context returned, if any
    payload,         \* the body of the request an endpoint of main.py was sent
    response         \* what the endpoint answered (NoResponse before it answers)

vars == <<entry, pc, query, user_context, member_hint, timeout, probes, probe,
          ollama_ready, line_num, current_section, current_user, parsed_data, branches, query_type,
          clock, llm_calls, result, previous, payload, response>>

\* Python's None, where a string may stand ...
None == "<None>"
\* ... and where a record may stand.
NoRecord == [is_none |-> TRUE]

(***************************************************************************)
(* Bounds of the model.                                                    *)
(***************************************************************************)
\* wait_for_ollama is checked for every timeout in 0..MaxTimeout.
MaxTimeout == 12
\* Queries given to classify_query_type are made of at most MaxPhrases phrases.
MaxPhrases == 2
\* Contexts are made of at most MaxLines lines.
MaxLines == 3

\* wait_for_ollama's default timeout, used by get_rag_response.
DefaultTimeout == 30

(***************************************************************************)
(* Strings.                                                                *)
(***************************************************************************)
Min(S) == CHOOSE m \in S : \A n \in S : m <= n
Max(S) == CHOOSE m \in S : \A n \in S : m >= n

Char(s, i) == SubSeq(s, i, i)

\* s[i..j] clipped to the string, "" when empty (Python slicing).
Slice(s, i, j) ==
    LET a == IF i < 1 THEN 1 ELSE i
        b == IF j > Len(s) THEN Len(s) ELSE j
    IN  IF a > b THEN "" ELSE SubSeq(s, a, b)

\* sub in s
Contains(s, sub) ==
    \E i \in 1..(Len(s) - Len(sub) + 1) : SubSeq(s, i, i + Len(sub) - 1) = sub

\* s.startswith(p)
StartsWith(s, p) == Len(p) <= Len(s) /\ SubSeq(s, 1, Len(p)) = p

\* the positions at which sub occurs in s
Occurrences(s, sub) ==
    {i \in 1..(Len(s) - Len(sub) + 1) : SubSeq(s, i, i + Len(sub) - 1) = sub}

IsSpace(c) == c \in {" ", "\t"}
IsDigit(c) == c \in {"0", "1", "2", "3", "4", "5", "6", "7", "8", "9"}

UpperLetters == "ABCDEFGHIJKLMNOPQRSTUVWXYZ"
LowerLetters == "abcdefghijklmnopqrstuvwxyz"

\* the lower-case letter of each upper-case letter
LowerMap ==
    [c \in {Char(UpperLetters, i) : i \in 1..26} |->
        Char(LowerLetters, CHOOSE i \in 1..26 : Char(UpperLetters, i) = c)]

LowerChar(c) == IF c \in DOMAIN LowerMap THEN LowerMap[c] ELSE c

\* s[i..j] in lower case, by halves
RECURSIVE LowerFrom(_, _, _)
LowerFrom(s, i, j) ==
    IF i > j THEN ""
    ELSE IF i = j THEN LowerChar(Char(s, i))
    ELSE LowerFrom(s, i, (i + j) \div 2) \o LowerFrom(s, (i + j) \div 2 + 1, j)

\* s.lower()
Lower(s) == LowerFrom(s, 1, Len(s))

\* a word character of the regex \b: [A-Za-z0-9_]
IsWordChar(c) ==
    \/ IsDigit(c)
    \/ c = "_"
    \/ \E i \in 1..26 : Char(LowerLetters, i) = LowerChar(c)

\* s.strip()
Strip(s) ==
    LET I == {i \in 1..Len(s) : ~IsSpace(Char(s, i))}
    IN  IF I = {} THEN "" ELSE SubSeq(s, Min(I), Max(I))

\* YYYY-MM-DD by shape, the regex \d{4}-\d{2}-\d{2}
IsIsoShape(s) ==
    /\ Len(s) = 10
    /\ \A i \in {1, 2, 3, 4, 6, 7, 9, 10} : IsDigit(Char(s, i))
    /\ Char(s, 5) = "-"
    /\ Char(s, 8) = "-"

RECURSIVE JoinFrom(_, _, _)
JoinFrom(ws, sep, i) ==
    IF i > Len(ws) THEN ""
    ELSE IF i = Len(ws) THEN ws[i]
    ELSE ws[i] \o sep \o JoinFrom(ws, sep, i + 1)

\* sep.join(ws)
Join(ws, sep) == JoinFrom(ws, sep, 1)

\* the sequences over S of length at most n
SeqUpTo(S, n) == UNION {[1..k -> S] : k \in 0..n}

(***************************************************************************)
(* The regular expressions of classify_query_type.  Every one of them is a *)
(* chain  p1.*p2.*...*pk  searched anywhere in the query, each piece pi a  *)
(* choice of literals, \d+ or \d{4}-\d{2}-\d{2}.  A chain matches iff its  *)
(* pieces occur in order without overlap, which the leftmost-earliest      *)
(* placement decides.                                                      *)
(***************************************************************************)
Lit(alts) == [cls |-> "lit", alts |-> alts]
Digits == [cls |-> "digits", alts |-> {}]
IsoDate == [cls |-> "isodate", alts |-> {}]

\* the end positions of the occurrences of piece p in s that start at from or later
EndsOf(s, p, from) ==
    IF p.cls = "lit" THEN
        UNION {{i + Len(a) - 1 : i \in {j \in Occurrences(s, a) : j >= from}} : a \in p.alts}
    ELSE IF p.cls = "digits" THEN
        {i \in from..Len(s) : IsDigit(Char(s, i))}
    ELSE
        {i + 9 : i \in {j \in from..(Len(s) - 9) : IsIsoShape(SubSeq(s, j, j + 9))}}

RECURSIVE MatchFrom(_, _, _, _)
MatchFrom(s, pieces, k, from) ==
    IF k > Len(pieces) THEN TRUE
    ELSE LET E == EndsOf(s, pieces[k], from)
         IN  E # {} /\ MatchFrom(s, pieces, k + 1, Min(E) + 1)

\* re.search(pattern, s) is not None
ReSearch(pieces, s) == MatchFrom(s, pieces, 1, 1)

\* any(re.search(p, s) for p in patterns)
AnyPattern(patterns, s) == \E i \in 1..Len(patterns) : ReSearch(patterns[i], s)

field_specific_patterns == <<
    <<Lit({"what", "when"}), Lit({"created"}), Lit({"date"})>>,
    <<Lit({"what", "when"}), Lit({"due"}), Lit({"date"})>>,
    <<Lit({"what", "show"}), Lit({"status"})>>,
    <<Lit({"what", "show"}), Lit({"priority"})>>,
    <<Lit({"what", "show"}), Lit({"description"})>>,
    <<Lit({"when"}), Lit({"task"}), Lit({"created"})>>,
    <<Lit({"when"}), Lit({"task"}), Lit({"due"})>>,
    <<Lit({"what"}), Lit({"task"}), Lit({"status"})>>,
    <<Lit({"specific task"})>>,
    <<Lit({"task"}), Lit({"named"})>>,
    <<Lit({"task"}), Lit({"called"})>> >>

date_message_patterns == <<
    <<Lit({"message"}), Lit({"september"}), Digits>>,
    <<Lit({"message"}), IsoDate>>,
    <<Lit({"message"}), Lit({"yesterday"})>>,
    <<Lit({"message"}), Lit({"last"}), Lit({"week"})>>,
    <<Lit({"message"}), Lit({"last"}), Lit({"month"})>> >>

kanban_patterns == <<
    <<Lit({"kanban"}), Lit({"task"})>>,
    <<Lit({"board"}), Lit({"task"})>>,
    <<Lit({"kanban"}), Lit({"column"})>>,
    <<Lit({"what"}), Lit({"on"}), Lit({"kanban"})>>,
    <<Lit({"kanban"}), Lit({"status"})>>,
    <<Lit({"show"}), Lit({"kanban"})>> >>

attachment_patterns == <<
    <<Lit({"attachment"})>>,
    <<Lit({"file"}), Lit({"upload"})>>,
    <<Lit({"document"}), Lit({"attach"})>>,
    <<Lit({"what"}), Lit({"file"})>>,
    <<Lit({"show"}), Lit({"attachment"})>> >>

team_task_patterns == <<
    <<Lit({"show"}), Lit({"all"}), Lit({"team"}), Lit({"task"})>>,
    <<Lit({"all"}), Lit({"team"}), Lit({"member"}), Lit({"task"})>>,
    <<Lit({"team"}), Lit({"task"})>>,
    <<Lit({"show"}), Lit({"all"}), Lit({"management"}), Lit({"task"})>>,
    <<Lit({"show"}), Lit({"all"}), Lit({"intern"}), Lit({"task"})>>,
    <<Lit({"show"}), Lit({"all"}), Lit({"lead"}), Lit({"task"})>>,
    <<Lit({"show"}), Lit({"all"}), Lit({"member"}), Lit({"task"})>> >>

strong_task_patterns == <<
    <<Lit({"what"}), Lit({"should"}), Lit({"complete"})>>,
    <<Lit({"what"}), Lit({"should"}), Lit({"do"})>>,
    <<Lit({"my"}), Lit({"task"})>>,
    <<Lit({"my"}), Lit({"overdue"})>>,
    <<Lit({"complete"}), Lit({"today"})>>,
    <<Lit({"work"}), Lit({"today"})>> >>

strong_message_patterns == <<
    <<Lit({"did"}), Lit({"get"}), Lit({"message"})>>,
    <<Lit({"any"}), Lit({"message"}), Lit({"from"})>>,
    <<Lit({"got"}), Lit({"any"}), Lit({"message"})>>,
    <<Lit({"hear"}), Lit({"from"})>> >>

task_keywords == <<"task", "work", "complete", "priority", "due">>
message_keywords == <<"message", "chat", "said", "told">>

\* sum(1 for kw in keywords if kw in s)
KeywordScore(keywords, s) ==
    Cardinality({i \in 1..Len(keywords) : Contains(s, keywords[i])})

\* A faulty scoring rule: the comparison of line 688 written > instead of >=,
\* so that a tie goes to the messages.
ScoreQueryStrict(query_lower) ==
    LET task_score == KeywordScore(task_keywords, query_lower)
        message_score == KeywordScore(message_keywords, query_lower)
    IN  IF task_score > message_score /\ task_score > 0 THEN "task_query"
        ELSE IF message_score > 0 THEN "message_query"
        ELSE "general_query"

\* the trailing scoring rule of classify_query_type
ScoreQuery(query_lower) ==
    LET task_score == KeywordScore(task_keywords, query_lower)
        message_score == KeywordScore(message_keywords, query_lower)
    IN  IF task_score >= message_score /\ task_score > 0 THEN "task_query"
        ELSE IF message_score > 0 THEN "message_query"
        ELSE "general_query"

\* A faulty classifier: the kanban group is tried before the field-specific one.
ClassifyKanbanFirst(q, members) ==
    LET query_lower == Lower(q)
    IN  IF AnyPattern(kanban_patterns, query_lower) THEN "kanban_query"
        ELSE IF AnyPattern(field_specific_patterns, query_lower) THEN "field_specific_query"
        ELSE IF AnyPattern(date_message_patterns, query_lower) THEN "date_message_query"
        ELSE IF AnyPattern(attachment_patterns, query_lower) THEN "attachment_query"
        ELSE IF AnyPattern(team_task_patterns, query_lower) THEN "team_task_query"
        ELSE IF AnyPattern(strong_task_patterns, query_lower) THEN "task_query"
        ELSE IF AnyPattern(strong_message_patterns, query_lower) THEN "message_query"
        ELSE ScoreQuery(query_lower)

\* A faulty classifier: a query that contains the name of a team member is taken
\* to ask for that member's messages.
ClassifyByMembers(q, members) ==
    LET query_lower == Lower(q)
    IN  IF \E i \in DOMAIN members : Contains(query_lower, Lower(members[i]))
        THEN "message_query"
        ELSE IF AnyPattern(field_specific_patterns, query_lower) THEN "field_specific_query"
        ELSE IF AnyPattern(date_message_patterns, query_lower) THEN "date_message_query"
        ELSE IF AnyPattern(kanban_patterns, query_lower) THEN "kanban_query"
        ELSE IF AnyPattern(attachment_patterns, query_lower) THEN "attachment_query"
        ELSE IF AnyPattern(team_task_patterns, query_lower) THEN "team_task_query"
        ELSE IF AnyPattern(strong_task_patterns, query_lower) THEN "task_query"
        ELSE IF AnyPattern(strong_message_patterns, query_lower) THEN "message_query"
        ELSE ScoreQuery(query_lower)

\* classify_query_type(query, team_members)
ClassifyQueryType(q, members) ==
    LET query_lower == Lower(q)
    IN  IF AnyPattern(field_specific_patterns, query_lower) THEN "field_specific_query"
        ELSE IF AnyPattern(date_message_patterns, query_lower) THEN "date_message_query"
        ELSE IF AnyPattern(kanban_patterns, query_lower) THEN "kanban_query"
        ELSE IF AnyPattern(attachment_patterns, query_lower) THEN "attachment_query"
        ELSE IF AnyPattern(team_task_patterns, query_lower) THEN "team_task_query"
        ELSE IF AnyPattern(strong_task_patterns, query_lower) THEN "task_query"
        ELSE IF AnyPattern(strong_message_patterns, query_lower) THEN "message_query"
        ELSE ScoreQuery(query_lower)

(***************************************************************************)
(* Dates: datetime.strptime(s, '%Y-%m-%d') and the difference in days.     *)
(***************************************************************************)
DigitVal(c) == CHOOSE n \in 0..9 : Char("0123456789", n + 1) = c

RECURSIVE NumFrom(_, _, _)
NumFrom(s, i, acc) ==
    IF i > Len(s) THEN acc ELSE NumFrom(s, i + 1, 10 * acc + DigitVal(Char(s, i)))

\* int(s) for a string of decimal digits
Num(s) == NumFrom(s, 1, 0)

IsLeap(y) == (y % 4 = 0 /\ y % 100 # 0) \/ y % 400 = 0

DaysInMonth(y, m) ==
    IF m = 2 THEN (IF IsLeap(y) THEN 29 ELSE 28)
    ELSE IF m \in {4, 6, 9, 11} THEN 30 ELSE 31

\* whether strptime(s, '%Y-%m-%d') succeeds on a string of the shape \d{4}-\d{2}-\d{2}
IsValidDate(s) ==
    /\ IsIsoShape(s)
    /\ LET y == Num(SubSeq(s, 1, 4))
           m == Num(SubSeq(s, 6, 7))
           d == Num(SubSeq(s, 9, 10))
       IN  y >= 1 /\ m \in 1..12 /\ d >= 1 /\ d <= DaysInMonth(y, m)

\* days from 0001-01-01 to the first day of month m of year y
DaysBeforeMonth(y, m) ==
    LET py == y - 1
        before == <<0, 31, 59, 90, 120, 151, 181, 212, 243, 273, 304, 334>>
    IN  py * 365 + py \div 4 - py \div 100 + py \div 400
        + before[m] + (IF m > 2 /\ IsLeap(y) THEN 1 ELSE 0)

\* date.toordinal() of a valid date string
Ordinal(s) ==
    DaysBeforeMonth(Num(SubSeq(s, 1, 4)), Num(SubSeq(s, 6, 7))) + Num(SubSeq(s, 9, 10))

(***************************************************************************)
(* parse_task_line                                                         *)
(***************************************************************************)
\* re.sub(r"^[\s*>'-]+", "", line).strip()
TaskCleanLine(line) ==
    LET I == {i \in 1..Len(line) :
                ~IsSpace(Char(line, i)) /\ Char(line, i) \notin {"*", ">", "'", "-"}}
    IN  IF I = {} THEN "" ELSE Strip(SubSeq(line, Min(I), Len(line)))

\* the first position after i at which character c stands in s, 0 if none
NextChar(s, c, i) ==
    LET I == {j \in (i + 1)..Len(s) : Char(s, j) = c}
    IN  IF I = {} THEN 0 ELSE Min(I)

\* r"\[([^\]]+)\]\s*([^(]+?)\s*\((.*)\)\s*$" matched with its "[" at b:
\* the "]" is the first after b, the "(" the first after that "]", each group
\* non-empty, and the (stripped) line ends with ")".
HeadMatchesAt(c, b) ==
    /\ Char(c, b) = "["
    /\ LET e == NextChar(c, "]", b)
       IN  /\ e > b + 1
           /\ LET o == NextChar(c, "(", e)
              IN  o > e + 1 /\ Len(c) > o /\ Char(c, Len(c)) = ")"

\* r"Key:\s*([^,)\]]+)" with re.I searched in meta: the stripped group, None if no match
FieldValue(meta, key) ==
    LET low == Lower(meta)
        q(p) == p + Len(key)
        Ok(p) == q(p) <= Len(meta) /\ Char(meta, q(p)) \notin {",", ")", "]"}
        P == {p \in Occurrences(low, key) : Ok(p)}
    IN  IF P = {} THEN None
        ELSE LET p == Min(P)
                 Stops == {j \in q(p)..Len(meta) : Char(meta, j) \in {",", ")", "]"}}
                 last == IF Stops = {} THEN Len(meta) ELSE Min(Stops) - 1
             IN  Strip(SubSeq(meta, q(p), last))

\* r"Due:\s*([0-9]{4}-[0-9]{2}-[0-9]{2})" with re.I searched in meta, None if no match
DueValue(meta) ==
    LET low == Lower(meta)
        Start(p) == LET I == {j \in (p + 4)..Len(meta) : ~IsSpace(Char(meta, j))}
                    IN  IF I = {} THEN Len(meta) + 1 ELSE Min(I)
        Ok(p) == Start(p) + 9 <= Len(meta)
                 /\ IsIsoShape(SubSeq(meta, Start(p), Start(p) + 9))
        P == {p \in Occurrences(low, "due:") : Ok(p)}
    IN  IF P = {} THEN None
        ELSE SubSeq(meta, Start(Min(P)), Start(Min(P)) + 9)

\* the record of the first pattern (lines 206-232)
TaskFromHead(c, b) ==
    LET e == NextChar(c, "]", b)
        o == NextChar(c, "(", e)
        meta == Slice(c, o + 1, Len(c) - 1)
        pm == FieldValue(meta, "priority:")
        sm == FieldValue(meta, "status:")
        dm == DueValue(meta)
        cm == FieldValue(meta, "created:")
        im == FieldValue(meta, "task id:")
    IN  [task_name |-> Strip(SubSeq(c, e + 1, o - 1)),
         urgency |-> Strip(SubSeq(c, b + 1, e - 1)),
         priority |-> IF pm # None THEN pm ELSE "Medium",
         status |-> IF sm # None THEN sm ELSE "Active",
         due_date |-> IF dm # None THEN dm ELSE "No date",
         created_date |-> IF cm # None /\ cm # "" THEN cm ELSE "Unknown",
         task_id |-> im]

\* r"\[([^\]]+)\]\s*(.+)" matched with its "[" at b
BracketMatchesAt(c, b) ==
    /\ Char(c, b) = "["
    /\ LET e == NextChar(c, "]", b) IN e > b + 1 /\ e < Len(c)

\* the record of the fallback pattern (lines 235-249)
TaskFromBracket(c, b) ==
    LET e == NextChar(c, "]", b)
    IN  [task_name |-> Strip(SubSeq(c, e + 1, Len(c))),
         urgency |-> Strip(SubSeq(c, b + 1, e - 1)),
         priority |-> "Medium",
         status |-> "Active",
         due_date |-> "No date",
         created_date |-> "Unknown",
         task_id |-> None]

\* the minimal record (lines 251-260)
TaskUnknown(c) ==
    [task_name |-> c, urgency |-> "Unknown", priority |-> "Medium",
     status |-> "Active", due_date |-> "No date", created_date |-> "Unknown",
     task_id |-> None]

\* A faulty parse_task_line: without the minimal record of lines 251-260.
ParseTaskLineNoMinimal(line) ==
    LET c == TaskCleanLine(line)
        H == {b \in 1..Len(c) : HeadMatchesAt(c, b)}
        B == {b \in 1..Len(c) : BracketMatchesAt(c, b)}
    IN  IF H # {} THEN TaskFromHead(c, Min(H))
        ELSE IF B # {} THEN TaskFromBracket(c, Min(B))
        ELSE NoRecord

\* parse_task_line(line): a task record, or NoRecord for None
ParseTaskLine(line) ==
    LET c == TaskCleanLine(line)
        H == {b \in 1..Len(c) : HeadMatchesAt(c, b)}
        B == {b \in 1..Len(c) : BracketMatchesAt(c, b)}
    IN  IF H # {} THEN TaskFromHead(c, Min(H))
        ELSE IF B # {} THEN TaskFromBracket(c, Min(B))
        ELSE IF c # "" THEN TaskUnknown(c)
        ELSE NoRecord

(***************************************************************************)
(* parse_message_line.  Each of its five regular expressions is modelled   *)
(* by the positions at which it can match; re.search takes the leftmost,   *)
(* and a lazy group the shortest that lets the rest match.                 *)
(***************************************************************************)
\* the first position at or after i that holds no whitespace (Len(s) + 1 if none)
SkipSpace(s, i) ==
    LET I == {j \in i..Len(s) : ~IsSpace(Char(s, j))}
    IN  IF I = {} THEN Len(s) + 1 ELSE Min(I)

\* s[i..] starts with the lower-case word w, whatever the case in s
HasWordAt(s, w, i) ==
    i >= 1 /\ i + Len(w) - 1 <= Len(s) /\ Lower(SubSeq(s, i, i + Len(w) - 1)) = w

\* "From\s+([^:]+):" with From at p: the position of the colon, 0 if no match
FromColon(line, p) ==
    IF HasWordAt(line, "from", p) /\ p + 4 <= Len(line) /\ IsSpace(Char(line, p + 4))
    THEN LET c == NextChar(line, ":", p + 4)
         IN  IF c >= p + 6 THEN c ELSE 0
    ELSE 0

IsGlyph(c) == c \in {"*", "}"}

\* pattern 0: From X (N messages) ... Latest (ts): content
\* the position of "(" after the name, 0 if "From\s+([^(]+?)\s*\(" fails at p
P0Open(line, p) ==
    IF HasWordAt(line, "from", p) /\ p + 4 <= Len(line) /\ IsSpace(Char(line, p + 4))
    THEN LET o == NextChar(line, "(", p + 4)
         IN  IF o >= p + 6 THEN o ELSE 0
    ELSE 0

\* the last digit of the run \d+ that starts at i (i - 1 if there is none)
DigitsEnd(line, i) ==
    LET Stops == {j \in i..Len(line) : ~IsDigit(Char(line, j))}
    IN  IF Stops = {} THEN Len(line) ELSE Min(Stops) - 1

\* the position of ")" closing "(\d+)\s*messages?\)" opened at o, 0 if no match
P0Close(line, o) ==
    LET d == DigitsEnd(line, o + 1)
        m == SkipSpace(line, d + 1)
    IN  IF d < o + 1 \/ ~HasWordAt(line, "message", m) THEN 0
        ELSE IF Slice(line, m + 7, m + 7) = ")" THEN m + 7
        ELSE IF Lower(Slice(line, m + 7, m + 8)) = "s)" THEN m + 8
        ELSE 0

\* "Latest\s*\(([^)]+)\):\s*(.+)" with Latest at l
P0LatestAt(line, l) ==
    /\ HasWordAt(line, "latest", l)
    /\ LET u == SkipSpace(line, l + 6)
       IN  /\ Slice(line, u, u) = "("
           /\ LET c == NextChar(line, ")", u)
              IN  c > u + 1 /\ Slice(line, c + 1, c + 1) = ":" /\ c + 2 <= Len(line)

P0Latest(line, close) == {l \in (close + 1)..Len(line) : P0LatestAt(line, l)}

P0MatchesAt(line, p) ==
    /\ P0Open(line, p) # 0
    /\ P0Close(line, P0Open(line, p)) # 0
    /\ P0Latest(line, P0Close(line, P0Open(line, p))) # {}

P0Fields(line, p) ==
    LET o == P0Open(line, p)
        l == Min(P0Latest(line, P0Close(line, o)))
        u == SkipSpace(line, l + 6)
        c == NextChar(line, ")", u)
    IN  [sender_name |-> Strip(SubSeq(line, p + 4, o - 1)),
         message_content |-> Strip(SubSeq(line, c + 2, Len(line))),
         timestamp_str |-> Strip(SubSeq(line, u + 1, c - 1)),
         date_str |-> None,
         message_count |-> Num(SubSeq(line, o + 1, DigitsEnd(line, o + 1)))]

\* pattern 1: From X: content (ts)
P1MatchesAt(line, p) ==
    /\ FromColon(line, p) # 0
    /\ LET o == NextChar(line, "(", FromColon(line, p))
       IN  o >= FromColon(line, p) + 2 /\ NextChar(line, ")", o) > o + 1

P1Fields(line, p) ==
    LET c1 == FromColon(line, p)
        o == NextChar(line, "(", c1)
        c2 == NextChar(line, ")", o)
    IN  [sender_name |-> Strip(SubSeq(line, p + 4, c1 - 1)),
         message_content |-> Strip(SubSeq(line, c1 + 1, o - 1)),
         timestamp_str |-> Strip(SubSeq(line, o + 1, c2 - 1)),
         date_str |-> None,
         message_count |-> 1]

\* pattern 2: * From X: content (time, date); the "(" positions that let it match
P2Opens(line, c1) ==
    {o \in (c1 + 2)..Len(line) :
        /\ Char(line, o) = "("
        /\ LET k == NextChar(line, ",", o)
           IN  k > o + 1 /\ NextChar(line, ")", k) > k + 1}

P2MatchesAt(line, g) ==
    /\ IsGlyph(Char(line, g))
    /\ FromColon(line, SkipSpace(line, g + 1)) # 0
    /\ P2Opens(line, FromColon(line, SkipSpace(line, g + 1))) # {}

P2Fields(line, g) ==
    LET f == SkipSpace(line, g + 1)
        c1 == FromColon(line, f)
        o == Min(P2Opens(line, c1))
        k == NextChar(line, ",", o)
        c2 == NextChar(line, ")", k)
    IN  [sender_name |-> Strip(SubSeq(line, f + 4, c1 - 1)),
         message_content |-> Strip(SubSeq(line, c1 + 1, o - 1)),
         timestamp_str |-> Strip(SubSeq(line, o + 1, k - 1)),
         date_str |-> Strip(SubSeq(line, k + 1, c2 - 1)),
         message_count |-> 1]

\* pattern 3: * From X: content
P3MatchesAt(line, g) ==
    /\ IsGlyph(Char(line, g))
    /\ FromColon(line, SkipSpace(line, g + 1)) # 0
    /\ FromColon(line, SkipSpace(line, g + 1)) < Len(line)

P3Fields(line, g) ==
    LET f == SkipSpace(line, g + 1)
        c1 == FromColon(line, f)
    IN  [sender_name |-> Strip(SubSeq(line, f + 4, c1 - 1)),
         message_content |-> Strip(SubSeq(line, c1 + 1, Len(line))),
         timestamp_str |-> "recent",
         date_str |-> None,
         message_count |-> 1]

\* pattern 4: * X: content
P4MatchesAt(line, g) ==
    /\ IsGlyph(Char(line, g))
    /\ NextChar(line, ":", g) > g + 1
    /\ NextChar(line, ":", g) < Len(line)

P4Fields(line, g) ==
    LET c1 == NextChar(line, ":", g)
    IN  [sender_name |-> Strip(SubSeq(line, g + 1, c1 - 1)),
         message_content |-> Strip(SubSeq(line, c1 + 1, Len(line))),
         timestamp_str |-> "recent",
         date_str |-> None,
         message_count |-> 1]

\* the fields of the first pattern that matches (lines 468-498), NoRecord if none does
MessageFields(line) ==
    LET Pos == 1..Len(line)
        M0 == {p \in Pos : P0MatchesAt(line, p)}
        M1 == {p \in Pos : P1MatchesAt(line, p)}
        M2 == {p \in Pos : P2MatchesAt(line, p)}
        M3 == {p \in Pos : P3MatchesAt(line, p)}
        M4 == {p \in Pos : P4MatchesAt(line, p)}
    IN  IF M0 # {} THEN P0Fields(line, Min(M0))
        ELSE IF M1 # {} THEN P1Fields(line, Min(M1))
        ELSE IF M2 # {} THEN P2Fields(line, Min(M2))
        ELSE IF M3 # {} THEN P3Fields(line, Min(M3))
        ELSE IF M4 # {} THEN P4Fields(line, Min(M4))
        ELSE NoRecord

\* the first substring of s of the shape \d{4}-\d{2}-\d{2}, None if there is none
FirstIsoDate(s) ==
    LET I == {i \in 1..(Len(s) - 9) : IsIsoShape(SubSeq(s, i, i + 9))}
    IN  IF I = {} THEN None ELSE SubSeq(s, Min(I), Min(I) + 9)

\* A faulty recency: the date of the timestamp is looked at before the literal
\* markers of the line.
RecencyDateFirst(line, f, utc_today) ==
    LET date_to_check == IF f.date_str # None /\ f.date_str # "" THEN f.date_str
                         ELSE f.timestamp_str
        date_part == FirstIsoDate(date_to_check)
    IN  IF date_part = utc_today THEN "today"
        ELSE IF date_part # None /\ IsValidDate(date_part)
                /\ Ordinal(date_part) = Ordinal(utc_today) - 1 THEN "yesterday"
        ELSE IF Contains(line, "TODAY:") THEN "today"
        ELSE IF Contains(line, "YESTERDAY:") THEN "yesterday"
        ELSE IF date_part = None \/ ~IsValidDate(date_part) THEN "this_week"
        ELSE IF Ordinal(utc_today) - Ordinal(date_part) <= 7 THEN "this_week"
        ELSE "older"

\* the recency of a message (lines 504-556); utc_today is datetime.utcnow().date()
Recency(line, f, utc_today) ==
    IF Contains(line, "TODAY:") THEN "today"
    ELSE IF Contains(line, "YESTERDAY:") THEN "yesterday"
    ELSE LET date_to_check == IF f.date_str # None /\ f.date_str # "" THEN f.date_str
                              ELSE f.timestamp_str
             date_part == FirstIsoDate(date_to_check)
         IN  IF date_part = None THEN "this_week"
             ELSE IF date_part = utc_today THEN "today"
             ELSE IF IsValidDate(date_part) /\ Ordinal(date_part) = Ordinal(utc_today) - 1
                  THEN "yesterday"
             ELSE IF ~IsValidDate(date_part) THEN "this_week"
             ELSE IF Ordinal(utc_today) - Ordinal(date_part) <= 7 THEN "this_week"
             ELSE "older"

\* lines 500-566: the record of the fields f the patterns extracted, NoRecord for None
MessageRecord(line, f, utc_today) ==
    IF f = NoRecord THEN NoRecord
    ELSE IF f.sender_name = "" THEN NoRecord
    ELSE [sender_name |-> f.sender_name,
          message_content |-> f.message_content,
          timestamp_str |-> f.timestamp_str,
          recency |-> Recency(line, f, utc_today),
          message_count |-> f.message_count]

\* parse_message_line(line): a message record, or NoRecord for None
ParseMessageLine(line, utc_today) == MessageRecord(line, MessageFields(line), utc_today)

(***************************************************************************)
(* parse_user_context.  A dict is the sequence of its items in insertion   *)
(* order, each item [key, value].                                          *)
(***************************************************************************)
DictKeys(d) == {d[i].key : i \in DOMAIN d}
DictGet(d, k) == d[CHOOSE i \in DOMAIN d : d[i].key = k].value
\* d.setdefault(k, []) : the dict with key k present
DictEnsure(d, k) ==
    IF k \in DictKeys(d) THEN d ELSE Append(d, [key |-> k, value |-> <<>>])
\* d[k].append(v), k present
DictAppendTo(d, k, v) ==
    [i \in DOMAIN d |-> IF d[i].key = k
                        THEN [key |-> k, value |-> Append(d[i].value, v)]
                        ELSE d[i]]

\* parsed_data as built at lines 29-48
EmptyParsedData ==
    [tasks |-> [overdue |-> <<>>, today |-> <<>>, upcoming |-> <<>>, total_count |-> 0],
     team_tasks |-> <<>>,
     messages |-> [today |-> <<>>, yesterday |-> <<>>, this_week |-> <<>>,
                   total_count |-> 0, by_sender |-> <<>>],
     team_members |-> <<>>]

\* not user_context.strip()
IsBlankContext(lines) == \A i \in DOMAIN lines : Strip(lines[i]) = ""

\* the condition of the personal-tasks header branch (lines 68-75)
IsPersonalHeader(line) ==
    \/ Contains(line, "YOUR ACTIVE TASKS:")
    \/ Contains(line, "YOUR KANBAN TASKS:")
    \/ StartsWith(line, "! OVERDUE TASKS:")
    \/ StartsWith(line, "# DUE TODAY:")
    \/ StartsWith(line, "% DUE TOMORROW:")
    \/ StartsWith(line, "# THIS WEEK:")

\* re.search(r"^\s*TEAM\s+TASKS\b", line, re.I)
TeamTasksRe(line) ==
    LET a == SkipSpace(line, 1)
        b == SkipSpace(line, a + 4)
    IN  /\ HasWordAt(line, "team", a)
        /\ b > a + 4
        /\ HasWordAt(line, "tasks", b)
        /\ (b + 5 > Len(line) \/ ~IsWordChar(Char(line, b + 5)))

\* the condition of the team-tasks header branch (lines 81-89)
IsTeamHeader(line) ==
    \/ Contains(line, "TECH TEAM - ACTIVE TASKS:")
    \/ Contains(line, "TECH TEAM - KANBAN TASKS:")
    \/ Contains(line, "TEAM LEADS - ACTIVE TASKS:")
    \/ Contains(line, "TEAM LEADS - KANBAN TASKS:")
    \/ Contains(line, "MEMBERS - ACTIVE TASKS:")
    \/ Contains(line, "MEMBERS - KANBAN TASKS:")
    \/ TeamTasksRe(line)

\* the condition of the first messages header branch (lines 95-96)
IsMessageHeader(line) ==
    \/ Contains(Lower(line), "team messages:")
    \/ Contains(Lower(line), "message data")
    \/ Contains(Lower(line), "recent messages")
    \/ StartsWith(Strip(line), "~ Recent Messages")

\* the condition of the second messages header branch (lines 101-103)
IsMessageHeader2(line) == IsMessageHeader(line) \/ Contains(line, "TEAM MESSAGES")

\* re.search(r"@\s*([^:]+):", line): the stripped group, None if no match
UserMatch(line) ==
    LET P == {p \in 1..Len(line) : Char(line, p) = "@" /\ NextChar(line, ":", p) > p + 1}
    IN  IF P = {} THEN None
        ELSE Strip(SubSeq(line, Min(P) + 1, NextChar(line, ":", Min(P)) - 1))

\* the condition of line 129
IsBullet(line) ==
    \/ StartsWith(line, "*")
    \/ StartsWith(line, ">")
    \/ StartsWith(line, "-")
    \/ StartsWith(line, "  *")

\* A faulty aggregation: the elif of line 139 written as if, so that an overdue
\* task falls through to the else branch as well.
AddTaskNoElif(data, task_info) ==
    LET t == data.tasks
    IN  IF task_info.urgency = "OVERDUE" THEN
            [data EXCEPT !.tasks = [t EXCEPT !.total_count = @ + 1,
                                             !.overdue = Append(@, task_info),
                                             !.upcoming = Append(@, task_info)]]
        ELSE IF task_info.urgency = "DUE TODAY" THEN
            [data EXCEPT !.tasks = [t EXCEPT !.total_count = @ + 1,
                                             !.today = Append(@, task_info)]]
        ELSE
            [data EXCEPT !.tasks = [t EXCEPT !.total_count = @ + 1,
                                             !.upcoming = Append(@, task_info)]]

\* lines 134-145: the task is counted and put in the bucket of its urgency
AddTask(data, task_info) ==
    LET t == data.tasks
    IN  IF task_info.urgency = "OVERDUE" THEN
            [data EXCEPT !.tasks = [t EXCEPT !.total_count = @ + 1,
                                             !.overdue = Append(@, task_info)]]
        ELSE IF task_info.urgency = "DUE TODAY" THEN
            [data EXCEPT !.tasks = [t EXCEPT !.total_count = @ + 1,
                                             !.today = Append(@, task_info)]]
        ELSE
            [data EXCEPT !.tasks = [t EXCEPT !.total_count = @ + 1,
                                             !.upcoming = Append(@, task_info)]]

\* lines 132-145: a bullet in the personal-tasks section, parsed to task_info
TaskStep(st, task_info) ==
    IF task_info = NoRecord THEN [st EXCEPT !.branch = "task_failed"]
    ELSE [st EXCEPT !.data = AddTask(@, task_info), !.branch = "task"]

\* lines 149-155: a bullet in the team-tasks section under a user
TeamTaskStep(st, task_info) ==
    IF task_info = NoRecord THEN [st EXCEPT !.branch = "team_task_failed"]
    ELSE [st EXCEPT !.data = [@ EXCEPT !.team_tasks =
                                DictAppendTo(@, st.user,
                                             ("assigned_to" :> st.user) @@ task_info)],
                    !.branch = "team_task"]

\* A faulty aggregation: the else of line 168 written as a test for "this_week",
\* so that a message of another recency is counted but put in no bucket.
AddMessageThisWeekOnly(data, msg_info) ==
    LET m == data.messages
        by == DictAppendTo(DictEnsure(m.by_sender, msg_info.sender_name),
                           msg_info.sender_name, msg_info)
    IN  IF msg_info.recency = "today" THEN
            [data EXCEPT !.messages = [m EXCEPT !.total_count = @ + 1,
                                                !.today = Append(@, msg_info),
                                                !.by_sender = by]]
        ELSE IF msg_info.recency = "yesterday" THEN
            [data EXCEPT !.messages = [m EXCEPT !.total_count = @ + 1,
                                                !.yesterday = Append(@, msg_info),
                                                !.by_sender = by]]
        ELSE IF msg_info.recency = "this_week" THEN
            [data EXCEPT !.messages = [m EXCEPT !.total_count = @ + 1,
                                                !.this_week = Append(@, msg_info),
                                                !.by_sender = by]]
        ELSE
            [data EXCEPT !.messages = [m EXCEPT !.total_count = @ + 1,
                                                !.by_sender = by]]

\* lines 163-178: the message is counted, put in the bucket of its recency and
\* under its sender
AddMessage(data, msg_info) ==
    LET m == data.messages
        by == DictAppendTo(DictEnsure(m.by_sender, msg_info.sender_name),
                           msg_info.sender_name, msg_info)
    IN  IF msg_info.recency = "today" THEN
            [data EXCEPT !.messages = [m EXCEPT !.total_count = @ + 1,
                                                !.today = Append(@, msg_info),
                                                !.by_sender = by]]
        ELSE IF msg_info.recency = "yesterday" THEN
            [data EXCEPT !.messages = [m EXCEPT !.total_count = @ + 1,
                                                !.yesterday = Append(@, msg_info),
                                                !.by_sender = by]]
        ELSE
            [data EXCEPT !.messages = [m EXCEPT !.total_count = @ + 1,
                                                !.this_week = Append(@, msg_info),
                                                !.by_sender = by]]

\* lines 159-178: a bullet in the messages section, parsed to msg_info
MessageStep(st, msg_info) ==
    IF msg_info = NoRecord THEN [st EXCEPT !.branch = "message_failed"]
    ELSE [st EXCEPT !.data = AddMessage(@, msg_info), !.branch = "message"]

\* A faulty content branch: a line that is no bullet ends the section.
ContentStepEndsSection(st, line, utc_today) ==
    IF ~IsBullet(line) THEN [st EXCEPT !.section = None, !.user = None, !.branch = "ignored"]
    ELSE IF st.section = "tasks" THEN TaskStep(st, ParseTaskLine(line))
    ELSE IF st.section = "team_tasks" /\ st.user # None /\ st.user # "" THEN
        TeamTaskStep(st, ParseTaskLine(line))
    ELSE IF st.section = "messages" THEN MessageStep(st, ParseMessageLine(line, utc_today))
    ELSE [st EXCEPT !.branch = "ignored"]

\* lines 129-178: the content branch, for the section and user now current
ContentStep(st, line, utc_today) ==
    IF ~IsBullet(line) THEN [st EXCEPT !.branch = "ignored"]
    ELSE IF st.section = "tasks" THEN TaskStep(st, ParseTaskLine(line))
    ELSE IF st.section = "team_tasks" /\ st.user # None /\ st.user # "" THEN
        TeamTaskStep(st, ParseTaskLine(line))
    ELSE IF st.section = "messages" THEN MessageStep(st, ParseMessageLine(line, utc_today))
    ELSE [st EXCEPT !.branch = "ignored"]

\* A faulty user header: the current user, once set, is kept.
UserStepKeepsUser(st, name) ==
    [st EXCEPT !.section = "team_tasks",
               !.user = IF st.user = None THEN name ELSE st.user,
               !.data = [@ EXCEPT !.team_tasks = DictEnsure(@, name),
                                  !.team_members = IF \E i \in DOMAIN @ : @[i] = name
                                                   THEN @ ELSE Append(@, name)],
               !.branch = "user_header"]

\* lines 111-126: a line that starts with the user marker, name its match
UserStep(st, name) ==
    [st EXCEPT !.section = "team_tasks",
               !.user = name,
               !.data = [@ EXCEPT !.team_tasks = DictEnsure(@, name),
                                  !.team_members = IF \E i \in DOMAIN @ : @[i] = name
                                                   THEN @ ELSE Append(@, name)],
               !.branch = "user_header"]

\* lines 109-178 for a line that is no section header: the user marker, then
\* the content
MarkerStep(st, line, is_marker, utc_today) ==
    IF is_marker /\ UserMatch(line) # None THEN UserStep(st, UserMatch(line))
    ELSE ContentStep(IF is_marker THEN [st EXCEPT !.section = "team_tasks"] ELSE st,
                     line, utc_today)

\* A faulty loop body: a bullet is parsed as content before the header tests.
LineStepBulletsFirst(st, line, utc_today) ==
    IF line = "" THEN [st EXCEPT !.branch = "blank"]
    ELSE IF IsBullet(line) THEN ContentStep(st, line, utc_today)
    ELSE IF IsPersonalHeader(line) THEN
        [st EXCEPT !.section = "tasks", !.user = None, !.branch = "personal_header"]
    ELSE IF IsTeamHeader(line) THEN
        [st EXCEPT !.section = "team_tasks", !.user = None, !.branch = "team_header"]
    ELSE IF IsMessageHeader(line) THEN
        [st EXCEPT !.section = "messages", !.user = None, !.branch = "message_header"]
    ELSE IF IsMessageHeader2(line) THEN
        [st EXCEPT !.section = "messages", !.user = None, !.branch = "message_header_2"]
    ELSE MarkerStep(st, line, StartsWith(line, "@"), utc_today)

\* A faulty loop body: the team-tasks header leaves the current user as it is.
LineStepTeamHeaderKeepsUser(st, line, utc_today) ==
    IF line = "" THEN [st EXCEPT !.branch = "blank"]
    ELSE IF IsPersonalHeader(line) THEN
        [st EXCEPT !.section = "tasks", !.user = None, !.branch = "personal_header"]
    ELSE IF IsTeamHeader(line) THEN
        [st EXCEPT !.section = "team_tasks", !.branch = "team_header"]
    ELSE IF IsMessageHeader(line) THEN
        [st EXCEPT !.section = "messages", !.user = None, !.branch = "message_header"]
    ELSE IF IsMessageHeader2(line) THEN
        [st EXCEPT !.section = "messages", !.user = None, !.branch = "message_header_2"]
    ELSE MarkerStep(st, line, StartsWith(line, "@"), utc_today)

\* the loop body (lines 60-178) on a stripped line
LineStep(st, line, utc_today) ==
    IF line = "" THEN [st EXCEPT !.branch = "blank"]
    ELSE IF IsPersonalHeader(line) THEN
        [st EXCEPT !.section = "tasks", !.user = None, !.branch = "personal_header"]
    ELSE IF IsTeamHeader(line) THEN
        [st EXCEPT !.section = "team_tasks", !.user = None, !.branch = "team_header"]
    ELSE IF IsMessageHeader(line) THEN
        [st EXCEPT !.section = "messages", !.user = None, !.branch = "message_header"]
    ELSE IF IsMessageHeader2(line) THEN
        [st EXCEPT !.section = "messages", !.user = None, !.branch = "message_header_2"]
    ELSE MarkerStep(st, line, StartsWith(line, "@"), utc_today)

\* one pass of the loop body (lines 60-178) over a raw line;
\* st = [section, user, data, branch]
ParseStep(st, raw, utc_today) == LineStep(st, Strip(raw), utc_today)

RECURSIVE ParseFrom(_, _, _, _)
ParseFrom(st, lines, i, utc_today) ==
    IF i > Len(lines) THEN st
    ELSE ParseFrom(ParseStep(st, lines[i], utc_today), lines, i + 1, utc_today)

ParseStart == [section |-> None, user |-> None, data |-> EmptyParsedData, branch |-> None]

\* parse_user_context(user_context): the returned parsed_data
ParseUserContext(lines, utc_today) ==
    IF IsBlankContext(lines) THEN EmptyParsedData
    ELSE ParseFrom(ParseStart, lines, 1, utc_today).data

(***************************************************************************)
(* The response builders.  A response is the returned string; the record   *)
(* around it also names the function that built it.  The text is the       *)
(* source's text with the bullet written "*", the priority marks (red,     *)
(* yellow, green circle) written "(R)", "(Y)", "(G)", and every other      *)
(* non-ASCII glyph left out.                                               *)
(***************************************************************************)
Returned(by, text) == [status |-> "returned", by |-> by, text |-> text]
Raised(by, error) == [status |-> "raised", by |-> by, text |-> error]
Pending == [status |-> "pending", by |-> None, text |-> ""]

\* 's' if count > 1 else ''
Plural(count) == IF count > 1 THEN "s" ELSE ""

PriorityMark(priority) ==
    IF priority = "High" THEN "(R)" ELSE IF priority = "Medium" THEN "(Y)" ELSE "(G)"

\* seq[:n]
Take(seq, n) == SubSeq(seq, 1, IF Len(seq) < n THEN Len(seq) ELSE n)

\* [x for x in seq if ...]: the elements of seq at the positions keep marks, in
\* order; keep[i] is the value of the condition on seq[i]
RECURSIVE FilterFrom(_, _, _)
FilterFrom(seq, keep, i) ==
    IF i > Len(seq) THEN <<>>
    ELSE (IF keep[i] THEN <<seq[i]>> ELSE <<>>) \o FilterFrom(seq, keep, i + 1)

Filter(seq, keep) == FilterFrom(seq, keep, 1)

\* sorted(seq, key=...): a stable insertion sort; key[i] is the key of seq[i] and
\* acc the positions sorted so far
RECURSIVE SortedFrom(_, _, _, _)
SortedFrom(seq, key, i, acc) ==
    IF i > Len(seq) THEN [j \in 1..Len(acc) |-> seq[acc[j]]]
    ELSE LET After == {j \in 1..Len(acc) : key[acc[j]] > key[i]}
             at == IF After = {} THEN Len(acc) + 1 ELSE Min(After)
         IN  SortedFrom(seq, key, i + 1,
                        SubSeq(acc, 1, at - 1) \o <<i>> \o SubSeq(acc, at, Len(acc)))

Sorted(seq, key) == SortedFrom(seq, key, 1, <<>>)

\* the sort key x['due_date'] if x['due_date'] != 'No date' else '2999-12-31':
\* due dates have the shape \d{4}-\d{2}-\d{2}, which orders as its digits do
DueKey(due) ==
    LET d == IF due \in {"No date", "No due date"} THEN "2999-12-31" ELSE due
    IN  Num(SubSeq(d, 1, 4)) * 10000 + Num(SubSeq(d, 6, 7)) * 100 + Num(SubSeq(d, 9, 10))

\* A faulty days-overdue figure: without the try/except of lines 811-816, the
\* day arithmetic is done on whatever has the shape of a date.
DaysOverdueNoCheck(due_date, local_today) ==
    IF due_date # "No date" THEN Ordinal(local_today) - Ordinal(due_date) ELSE 0

\* lines 810-818: the days-overdue figure; local_today is datetime.now().date()
DaysOverdue(due_date, local_today) ==
    IF due_date # "No date" THEN
        IF IsValidDate(due_date) THEN Ordinal(local_today) - Ordinal(due_date) ELSE 0
    ELSE 0

\* handle_overdue_tasks(overdue_tasks, query)
HandleOverdueTasks(overdue_tasks, local_today) ==
    LET count == Len(overdue_tasks)
        Block(i) ==
            LET task == overdue_tasks[i]
            IN  "**" \o ToString(i) \o ". " \o task.task_name \o "** "
                \o PriorityMark(task.priority)
                \o "\n   * **Due Date:** " \o task.due_date \o "  ("
                \o ToString(DaysOverdue(task.due_date, local_today)) \o " days overdue)"
                \o "\n   * **Priority:** " \o task.priority
                \o "\n   * **Status:** " \o task.status
                \o "\n   * **Created:** " \o task.created_date
                \o "\n   * **Task ID:** " \o (IF task.task_id = None THEN "None" ELSE task.task_id)
        high == Len(Filter(overdue_tasks,
                          [i \in DOMAIN overdue_tasks |-> overdue_tasks[i].priority = "High"]))
    IN  Returned("handle_overdue_tasks", Join(
          <<" **CRITICAL ALERT: " \o ToString(count) \o " Overdue Task" \o Plural(count) \o "**",
            "",
            "**Status:** Your schedule requires immediate attention.",
            "**Action Required:** Please prioritize the following tasks:",
            "">>
          \o [i \in 1..count |-> Block(i)]
          \o <<"", "---", "** Immediate Action Plan:**",
               "1 **Start immediately with:** '" \o overdue_tasks[1].task_name \o "'",
               "2 **Clear your calendar** to focus on overdue items",
               "3 **Notify stakeholders** about any delays",
               "4 **Request deadline extensions** if needed",
               "",
               "** Professional Tip:** Tackle high-priority overdue tasks first, then work chronologically by due date.",
               "",
               "** Overview:** " \o ToString(count) \o " overdue, " \o ToString(high)
                  \o " high priority">>, "\n"))

\* handle_today_tasks(today_tasks, query)
HandleTodayTasks(today_tasks) ==
    LET count == Len(today_tasks)
        Item(i) == ToString(i) \o ". " \o PriorityMark(today_tasks[i].priority) \o " **"
                   \o today_tasks[i].task_name \o "** (Priority: "
                   \o today_tasks[i].priority \o ")"
        high_priority_tasks == Filter(today_tasks,
                   [i \in DOMAIN today_tasks |-> today_tasks[i].priority = "High"])
    IN  Returned("handle_today_tasks", Join(
          <<" **You have " \o ToString(count) \o " task" \o Plural(count) \o " due TODAY:**", "">>
          \o [i \in 1..count |-> Item(i)]
          \o (IF high_priority_tasks # <<>>
              THEN <<"", "** Recommendation:** Start with HIGH priority: **"
                         \o high_priority_tasks[1].task_name \o "**">>
              ELSE <<"", "** Recommendation:** Start with: **" \o today_tasks[1].task_name
                         \o "** and work systematically through the list.">>), "\n"))

\* handle_upcoming_tasks(upcoming_tasks, query)
HandleUpcomingTasks(upcoming_tasks) ==
    LET count == Len(upcoming_tasks)
        sorted_tasks == Sorted(upcoming_tasks,
                   [i \in DOMAIN upcoming_tasks |-> DueKey(upcoming_tasks[i].due_date)])
        shown == Take(sorted_tasks, 5)
        Item(i) == ToString(i) \o ". **" \o shown[i].task_name \o "** (Due: "
                   \o shown[i].due_date \o ", Priority: " \o shown[i].priority \o ")"
    IN  Returned("handle_upcoming_tasks", Join(
          <<" **Excellent! No tasks due today.**",
            " You have " \o ToString(count) \o " upcoming task" \o Plural(count) \o ":", "">>
          \o [i \in 1..Len(shown) |-> Item(i)]
          \o (IF count > 5
              THEN <<"...and " \o ToString(count - 5) \o " more upcoming tasks">> ELSE <<>>)
          \o (IF sorted_tasks # <<>>
              THEN <<"", "** Perfect time to get ahead!**",
                     " **Consider starting early on: '" \o sorted_tasks[1].task_name
                        \o "' (Due: " \o sorted_tasks[1].due_date \o ")**",
                     "",
                     "**Other options:**",
                     "* Focus on professional development",
                     "* Review and organize your workflow",
                     "* Plan ahead for upcoming projects">>
              ELSE <<>>), "\n"))

\* handle_no_tasks(query)
HandleNoTasks ==
    Returned("handle_no_tasks", Join(
      <<" **Outstanding! No pending tasks found.**",
        "",
        "You're completely caught up! This is perfect timing to:",
        "*  Plan ahead for upcoming projects  ",
        "*  Focus on professional development",
        "*  Take a well-deserved break",
        "*  Review and organize your workflow",
        "*  Brainstorm new ideas or improvements",
        "",
        "**Keep up the excellent work!** You're ahead of schedule and in great shape.">>, "\n"))

\* A faulty task response: the last branch takes the upcoming bucket to be
\* non-empty and reads its first task.
GenerateTaskResponseNoFallback(q, data, local_today) ==
    LET tasks == data.tasks
        ql == Lower(q)
    IN  IF (\E k \in {"overdue", "past due", "late"} : Contains(ql, k)) /\ tasks.overdue # <<>>
        THEN HandleOverdueTasks(tasks.overdue, local_today)
        ELSE IF tasks.today # <<>> THEN HandleTodayTasks(tasks.today)
        ELSE IF tasks.overdue # <<>> THEN HandleOverdueTasks(tasks.overdue, local_today)
        ELSE IF tasks.upcoming # <<>> THEN HandleUpcomingTasks(tasks.upcoming)
        ELSE Raised("generate_task_response", "IndexError")

\* generate_task_response(query, parsed_data)
GenerateTaskResponse(q, data, local_today) ==
    LET tasks == data.tasks
        ql == Lower(q)
    IN  IF (\E k \in {"overdue", "past due", "late"} : Contains(ql, k)) /\ tasks.overdue # <<>>
        THEN HandleOverdueTasks(tasks.overdue, local_today)
        ELSE IF tasks.today # <<>> THEN HandleTodayTasks(tasks.today)
        ELSE IF tasks.overdue # <<>> THEN HandleOverdueTasks(tasks.overdue, local_today)
        ELSE IF tasks.upcoming # <<>> THEN HandleUpcomingTasks(tasks.upcoming)
        ELSE HandleNoTasks

(***************************************************************************)
(* The message responses.                                                  *)
(***************************************************************************)
\* member.split(): whether it is empty, and its first word
IsBlank(s) == Strip(s) = ""
FirstWord(s) ==
    LET a == SkipSpace(s, 1)
        Stops == {j \in a..Len(s) : IsSpace(Char(s, j))}
    IN  SubSeq(s, a, IF Stops = {} THEN Len(s) ELSE Min(Stops) - 1)

\* lines 1408-1414: the member the query names, None if none; "IndexError" when
\* member.split()[0] is evaluated on a member with no word in it
RECURSIVE MentionedFrom(_, _, _)
MentionedFrom(members, query_lower, i) ==
    IF i > Len(members) THEN [status |-> "found", person |-> None]
    ELSE IF IsBlank(members[i]) THEN [status |-> "IndexError", person |-> None]
    ELSE IF \/ Contains(query_lower, Lower(members[i]))
            \/ Contains(query_lower, Lower(FirstWord(members[i])))
         THEN [status |-> "found", person |-> members[i]]
    ELSE MentionedFrom(members, query_lower, i + 1)

\* the concatenation of the value lists of the items of d whose key, in lower
\* case, contains sub
RECURSIVE ValuesFrom(_, _, _)
ValuesFrom(d, sub, i) ==
    IF i > Len(d) THEN <<>>
    ELSE (IF Contains(Lower(d[i].key), sub) THEN d[i].value ELSE <<>>)
         \o ValuesFrom(d, sub, i + 1)

MessageItem(msg) == "* " \o msg.timestamp_str \o ": " \o msg.message_content

SenderItem(msg) ==
    "* **" \o msg.sender_name \o "** (" \o msg.timestamp_str \o "): " \o msg.message_content

\* handle_person_specific_messages(messages, person, query)
HandlePersonSpecificMessages(messages, person) ==
    LET person_messages ==
            ValuesFrom(messages.by_sender, Lower(person), 1)
        today_msgs == Filter(person_messages,
                             [i \in DOMAIN person_messages |->
                                 person_messages[i].recency = "today"])
        yesterday_msgs == Filter(person_messages,
                                 [i \in DOMAIN person_messages |->
                                     person_messages[i].recency = "yesterday"])
        shown_today == Take(today_msgs, 3)
        shown_yesterday == Take(yesterday_msgs, 2)
    IN  IF person_messages # <<>> THEN
            Returned("handle_person_specific_messages", Join(
              <<" **Yes, you received messages from " \o person \o ":**", "">>
              \o (IF today_msgs # <<>>
                  THEN <<"**Today:**">> \o [i \in 1..Len(shown_today) |-> MessageItem(shown_today[i])]
                  ELSE <<>>)
              \o (IF yesterday_msgs # <<>>
                  THEN <<"**Yesterday:**">>
                       \o [i \in 1..Len(shown_yesterday) |-> MessageItem(shown_yesterday[i])]
                  ELSE <<>>), "\n"))
        ELSE Returned("handle_person_specific_messages",
                      " **No recent messages from " \o person
                      \o ".**\n\nTry checking the spelling or look at your full message history.")

\* handle_today_messages(messages, query)
HandleTodayMessages(messages) ==
    LET today_msgs == messages.today
        count == Len(today_msgs)
        shown == Take(today_msgs, 5)
    IN  IF today_msgs # <<>> THEN
            Returned("handle_today_messages", Join(
              <<" **You received " \o ToString(count) \o " message" \o Plural(count)
                  \o " today:**", "">>
              \o [i \in 1..Len(shown) |-> SenderItem(shown[i])], "\n"))
        ELSE Returned("handle_today_messages",
                      " **No messages received today.**\n\n Your inbox is empty for today.")

\* handle_yesterday_messages(messages, query)
HandleYesterdayMessages(messages) ==
    LET yesterday_msgs == messages.yesterday
        count == Len(yesterday_msgs)
        shown == Take(yesterday_msgs, 5)
    IN  IF yesterday_msgs # <<>> THEN
            Returned("handle_yesterday_messages", Join(
              <<" **You received " \o ToString(count) \o " message" \o Plural(count)
                  \o " yesterday:**", "">>
              \o [i \in 1..Len(shown) |-> SenderItem(shown[i])], "\n"))
        ELSE Returned("handle_yesterday_messages", " **No messages received yesterday.**")

\* handle_general_messages(messages, query)
HandleGeneralMessages(messages) ==
    LET total == messages.total_count
        sorted_senders == Take(Sorted(messages.by_sender,
                                      [i \in DOMAIN messages.by_sender |->
                                          0 - Len(messages.by_sender[i].value)]), 3)
        Sender(i) == "* " \o sorted_senders[i].key \o ": "
                     \o ToString(Len(sorted_senders[i].value)) \o " messages"
    IN  IF total = 0 THEN
            Returned("handle_general_messages",
                     " **No recent messages found.**\n\nCheck your message settings or try refreshing.")
        ELSE Returned("handle_general_messages", Join(
              <<" **Message Summary (" \o ToString(total) \o " total messages):**", "">>
              \o (IF messages.today # <<>>
                  THEN <<"**Today:** " \o ToString(Len(messages.today)) \o " messages">> ELSE <<>>)
              \o (IF messages.yesterday # <<>>
                  THEN <<"**Yesterday:** " \o ToString(Len(messages.yesterday)) \o " messages">>
                  ELSE <<>>)
              \o (IF messages.this_week # <<>>
                  THEN <<"**This week:** " \o ToString(Len(messages.this_week)) \o " messages">>
                  ELSE <<>>)
              \o (IF messages.by_sender # <<>>
                  THEN <<"\n**Most active contacts:**">>
                       \o [i \in 1..Len(sorted_senders) |-> Sender(i)]
                  ELSE <<>>), "\n"))

\* A faulty generate_message_response: the words today and yesterday are looked
\* for before the person.
GenerateMessageResponseDayFirst(q, data) ==
    LET query_lower == Lower(q)
        mentioned == MentionedFrom(data.team_members, query_lower, 1)
    IN  IF mentioned.status = "IndexError" THEN Raised("generate_message_response", "IndexError")
        ELSE IF Contains(query_lower, "today") THEN HandleTodayMessages(data.messages)
        ELSE IF Contains(query_lower, "yesterday") THEN HandleYesterdayMessages(data.messages)
        ELSE IF mentioned.person # None THEN
            HandlePersonSpecificMessages(data.messages, mentioned.person)
        ELSE HandleGeneralMessages(data.messages)

\* generate_message_response(query, parsed_data)
GenerateMessageResponse(q, data) ==
    LET query_lower == Lower(q)
        mentioned == MentionedFrom(data.team_members, query_lower, 1)
    IN  IF mentioned.status = "IndexError" THEN Raised("generate_message_response", "IndexError")
        ELSE IF mentioned.person # None THEN
            HandlePersonSpecificMessages(data.messages, mentioned.person)
        ELSE IF Contains(query_lower, "today") THEN HandleTodayMessages(data.messages)
        ELSE IF Contains(query_lower, "yesterday") THEN HandleYesterdayMessages(data.messages)
        ELSE HandleGeneralMessages(data.messages)

(***************************************************************************)
(* The team task response.                                                 *)
(***************************************************************************)
\* lines 927-932: the list a task of the given urgency is appended to
TeamBucket(urgency) ==
    IF urgency = "OVERDUE" THEN "overdue_tasks"
    ELSE IF urgency = "DUE TODAY" THEN "today_tasks"
    ELSE "upcoming_tasks"

\* the task entries of lines 917-932 appended to the list named by bucket, in
\* the order of the users and of each user's tasks
RECURSIVE TeamEntriesFrom(_, _, _)
TeamEntriesFrom(team_tasks, bucket, i) ==
    IF i > Len(team_tasks) THEN <<>>
    ELSE LET kept == Filter(team_tasks[i].value,
                            [k \in DOMAIN team_tasks[i].value |->
                                TeamBucket(team_tasks[i].value[k].urgency) = bucket])
         IN  [j \in 1..Len(kept) |->
                 [user |-> team_tasks[i].key, name |-> kept[j].task_name,
                  due |-> kept[j].due_date, priority |-> kept[j].priority,
                  urgency |-> kept[j].urgency]]
             \o TeamEntriesFrom(team_tasks, bucket, i + 1)

\* overdue_by_user / today_by_user: the entries grouped by user, users in the
\* order of their first entry
RECURSIVE GroupByUser(_, _)
GroupByUser(entries, acc) ==
    IF entries = <<>> THEN acc
    ELSE GroupByUser(Tail(entries),
                     DictAppendTo(DictEnsure(acc, entries[1].user), entries[1].user, entries[1]))

\* the lines of one user's group (lines 964-970 and 987-993)
GroupLines(group, label, more, with_due) ==
    LET tasks == group.value
        shown == Take(tasks, 3)
        Item(t) == "  * " \o t.name \o " ("
                   \o (IF with_due THEN "Due: " \o t.due \o ", " ELSE "")
                   \o "Priority: " \o t.priority \o ")"
    IN  <<"**" \o group.key \o "** (" \o ToString(Len(tasks)) \o " " \o label \o "):">>
        \o [i \in 1..Len(shown) |-> Item(shown[i])]
        \o (IF Len(tasks) > 3
            THEN <<"  * ...and " \o ToString(Len(tasks) - 3) \o " more " \o more>> ELSE <<>>)
        \o <<"">>

RECURSIVE Flatten(_)
Flatten(seqs) == IF seqs = <<>> THEN <<>> ELSE seqs[1] \o Flatten(Tail(seqs))

\* A faulty recommendation: the tasks due today are looked at before the
\* overdue ones.
RecommendationTodayFirst(overdue_tasks, today_tasks) ==
    IF Len(today_tasks) = 0 /\ Len(overdue_tasks) > 0 THEN
        <<"** IMMEDIATE ACTION REQUIRED:**",
          "Team has " \o ToString(Len(overdue_tasks)) \o " overdue tasks across "
             \o ToString(Cardinality({overdue_tasks[i].user : i \in 1..Len(overdue_tasks)}))
             \o " team members!",
          "",
          "**Recommendations:**",
          "* Schedule urgent team standup to address overdue items",
          "* Redistribute workload if team members are overwhelmed",
          "* Extend deadlines where appropriate and notify stakeholders",
          "* Identify and remove blockers preventing task completion">>
    ELSE IF Len(today_tasks) > 0 THEN
        <<"** Today's Focus:**",
          "Team has " \o ToString(Len(today_tasks)) \o " tasks due today - monitor progress closely.",
          "",
          "**Recommendations:**",
          "* Check in with team members during daily standup",
          "* Be available to help remove any last-minute blockers",
          "* Prepare for potential deadline extensions if needed">>
    ELSE
        <<"** Excellent Status:**",
          "Team has no overdue tasks and nothing due today!",
          "",
          "**Recommendations:**",
          "* Great time to plan ahead for upcoming deliverables",
          "* Consider taking on additional stretch goals",
          "* Focus on process improvements and team development">>

\* the recommendation block of lines 1026-1056
Recommendation(overdue_tasks, today_tasks) ==
    IF Len(overdue_tasks) > 0 THEN
        <<"** IMMEDIATE ACTION REQUIRED:**",
          "Team has " \o ToString(Len(overdue_tasks)) \o " overdue tasks across "
             \o ToString(Cardinality({overdue_tasks[i].user : i \in 1..Len(overdue_tasks)}))
             \o " team members!",
          "",
          "**Recommendations:**",
          "* Schedule urgent team standup to address overdue items",
          "* Redistribute workload if team members are overwhelmed",
          "* Extend deadlines where appropriate and notify stakeholders",
          "* Identify and remove blockers preventing task completion">>
    ELSE IF Len(today_tasks) > 0 THEN
        <<"** Today's Focus:**",
          "Team has " \o ToString(Len(today_tasks)) \o " tasks due today - monitor progress closely.",
          "",
          "**Recommendations:**",
          "* Check in with team members during daily standup",
          "* Be available to help remove any last-minute blockers",
          "* Prepare for potential deadline extensions if needed">>
    ELSE
        <<"** Excellent Status:**",
          "Team has no overdue tasks and nothing due today!",
          "",
          "**Recommendations:**",
          "* Great time to plan ahead for upcoming deliverables",
          "* Consider taking on additional stretch goals",
          "* Focus on process improvements and team development">>

\* generate_team_task_response(query, parsed_data)
GenerateTeamTaskResponse(q, data) ==
    LET team_tasks == data.team_tasks
        query_lower == Lower(q)
        is_tech_team_query == Contains(query_lower, "tech team")
        is_lead_query == Contains(query_lower, "team lead") \/ Contains(query_lower, "lead")
        is_member_query == Contains(query_lower, "member") /\ ~is_lead_query
        total_users == Len(team_tasks)
        overdue_tasks == TeamEntriesFrom(team_tasks, "overdue_tasks", 1)
        today_tasks == TeamEntriesFrom(team_tasks, "today_tasks", 1)
        upcoming_tasks == TeamEntriesFrom(team_tasks, "upcoming_tasks", 1)
        total_tasks == Len(overdue_tasks) + Len(today_tasks) + Len(upcoming_tasks)
        name == IF is_tech_team_query THEN "Tech Team Task Overview"
                ELSE IF is_lead_query THEN "Team Lead Task Overview"
                ELSE IF is_member_query THEN "Team Member Task Overview"
                ELSE "Team Task Overview"
        overdue_by_user == GroupByUser(overdue_tasks, <<>>)
        today_by_user == GroupByUser(today_tasks, <<>>)
        upcoming_sorted == Take(Sorted(upcoming_tasks,
                                       [i \in DOMAIN upcoming_tasks |->
                                           DueKey(upcoming_tasks[i].due)]), 5)
        UpcomingItem(t) == "* **" \o t.user \o "**: " \o t.name \o " (Due: " \o t.due
                           \o ", Priority: " \o t.priority \o ")"
    IN  IF team_tasks = <<>> THEN
            Returned("generate_team_task_response:no_data", Join(
              <<" **No Team Task Data Found**",
                "",
                "Unable to retrieve team task information. This could be because:",
                "* No team members have active tasks",
                "* Database access issue  ",
                "* Team filtering not working properly",
                "",
                "**Suggestion:** Check individual user task dashboards directly.">>, "\n"))
        ELSE IF total_tasks = 0 THEN
            Returned("generate_team_task_response:no_tasks", Join(
              <<" **" \o name \o "**",
                "",
                "No active tasks found for the specified team members.",
                "",
                "This could mean:",
                "* All team members are caught up with their work ",
                "* Tasks are managed in a different system",
                "* Team members haven't been assigned tasks yet",
                "* Database filtering issue",
                "",
                "**Suggestion:** Verify task assignments and check if tasks are in a different status.">>,
              "\n"))
        ELSE
            Returned("generate_team_task_response", Join(
              <<" **" \o name \o "** (" \o ToString(total_tasks) \o " tasks across "
                  \o ToString(total_users) \o " team members)", "">>
              \o (IF overdue_tasks # <<>>
                  THEN <<" **CRITICAL - OVERDUE TASKS (" \o ToString(Len(overdue_tasks)) \o "):**",
                         "">>
                       \o Flatten([i \in 1..Len(overdue_by_user) |->
                            GroupLines(overdue_by_user[i], "overdue", "overdue tasks", TRUE)])
                  ELSE <<>>)
              \o (IF today_tasks # <<>>
                  THEN <<" **DUE TODAY (" \o ToString(Len(today_tasks)) \o "):**", "">>
                       \o Flatten([i \in 1..Len(today_by_user) |->
                            GroupLines(today_by_user[i], "due today", "tasks due today", FALSE)])
                  ELSE <<>>)
              \o (IF upcoming_tasks # <<>>
                  THEN <<" **UPCOMING TASKS (next 5 by due date):**", "">>
                       \o [i \in 1..Len(upcoming_sorted) |-> UpcomingItem(upcoming_sorted[i])]
                       \o (IF Len(upcoming_tasks) > 5
                           THEN <<"...and " \o ToString(Len(upcoming_tasks) - 5)
                                    \o " more upcoming tasks">>
                           ELSE <<>>)
                       \o <<"">>
                  ELSE <<>>)
              \o <<"** Team Summary:**",
                   "* Total active tasks: " \o ToString(total_tasks),
                   "* Team members with tasks: " \o ToString(total_users),
                   "* Overdue tasks: " \o ToString(Len(overdue_tasks)),
                   "* Due today: " \o ToString(Len(today_tasks)),
                   "* Upcoming tasks: " \o ToString(Len(upcoming_tasks)),
                   "">>
              \o Recommendation(overdue_tasks, today_tasks), "\n"))

(***************************************************************************)
(* The field-specific, kanban and date-message responses.                  *)
(***************************************************************************)
\* the position after the first "task" of s, 0 if there is none
AfterTask(s) ==
    LET T == Occurrences(s, "task") IN IF T = {} THEN 0 ELSE Min(T) + 4

\* group 1 of 'task.*"([^"]+)"' on s, None if the regex does not match
QuotedName(s) ==
    LET t == AfterTask(s)
        Opens == {p \in t..Len(s) :
                    /\ t # 0
                    /\ Char(s, p) = "\""
                    /\ NextChar(s, "\"", p) > p + 1}
    IN  IF Opens = {} THEN None
        ELSE SubSeq(s, Max(Opens) + 1, NextChar(s, "\"", Max(Opens)) - 1)

\* group 1 of 'task.*<word>\s+([^\?]+)' on s, None if the regex does not match
WordName(s, word) ==
    LET t == AfterTask(s)
        n == Len(word)
        First(c) == SkipSpace(s, c + n)
        Named(c) == First(c) <= Len(s) /\ Char(s, First(c)) # "?"
        At == {c \in t..Len(s) :
                 /\ t # 0
                 /\ Slice(s, c, c + n - 1) = word
                 /\ IsSpace(Slice(s, c + n, c + n))
                 /\ (Named(c) \/ First(c) - (c + n) >= 2)}
    IN  IF At = {} THEN None
        ELSE LET c == Max(At)
                 Marks == {q \in First(c)..Len(s) : Char(s, q) = "?"}
             IN  IF Named(c)
                 THEN SubSeq(s, First(c), IF Marks = {} THEN Len(s) ELSE Min(Marks) - 1)
                 ELSE SubSeq(s, First(c) - 1, First(c) - 1)

\* lines 1083-1087: the stripped group of the first regex that matched, None if
\* none did
FirstGroup(quoted, called, named) ==
    IF quoted # None THEN Strip(quoted)
    ELSE IF called # None THEN Strip(called)
    ELSE IF named # None THEN Strip(named)
    ELSE None

TargetTaskName(query_lower) ==
    FirstGroup(QuotedName(query_lower), WordName(query_lower, "called"),
               WordName(query_lower, "named"))

\* lines 1120-1144: the details of the matching task
TaskDetails(query_lower, t) ==
    Returned("generate_field_specific_response", Join(
      <<" **Task Details: '" \o t.task_name \o "'**", "">>
      \o (IF Contains(query_lower, "created") \/ Contains(query_lower, "creation date")
          THEN <<" **Created:** " \o t.created_date>> ELSE <<>>)
      \o (IF Contains(query_lower, "due")
          THEN <<" **Due Date:** " \o t.due_date>> ELSE <<>>)
      \o (IF Contains(query_lower, "status")
          THEN <<" **Status:** " \o t.status>> ELSE <<>>)
      \o (IF Contains(query_lower, "priority")
          THEN <<" **Priority:** " \o t.priority>> ELSE <<>>)
      \o (IF ~\E word \in {"created", "due", "status", "priority"} :
                 Contains(query_lower, word)
          THEN <<" **Status:** " \o t.status,
                 " **Priority:** " \o t.priority,
                 " **Due Date:** " \o t.due_date,
                 " **Urgency:** " \o t.urgency,
                 " **Created:** " \o t.created_date>>
          ELSE <<>>), "\n"))

\* lines 1098-1117: the search for the task named target_task_name
FindTask(query_lower, target_task_name, matching) ==
    IF matching = <<>> THEN
        Returned("generate_field_specific_response:not_found", Join(
          <<" **Task '" \o target_task_name \o "' not found in your active tasks.**",
            "",
            "**Possible reasons:**",
            "- Task name spelling doesn't match exactly",
            "- Task is already completed",
            "- Task belongs to a different user",
            "",
            "**Try:** \"Show all my tasks\" to see your complete task list.">>, "\n"))
    ELSE TaskDetails(query_lower, matching[1])

\* lines 1087-1144, given the target task name
FieldSpecificResponse(query_lower, target_task_name, all_tasks) ==
    IF target_task_name = None \/ target_task_name = "" THEN
        Returned("generate_field_specific_response:unspecified", Join(
          <<" **Please specify which task you're asking about.**",
            "",
            "**Try asking like:**",
            "- \"What is the created date for my task 'Project Proposal'?\"",
            "- \"When is 'Bug Fix' task due?\"",
            "- \"What is the status of my task 'Code Review'?\"",
            "">>, "\n"))
    ELSE FindTask(query_lower, target_task_name,
                  Filter(all_tasks,
                         [i \in DOMAIN all_tasks |->
                             Contains(Lower(all_tasks[i].task_name), Lower(target_task_name))]))

\* generate_field_specific_response(query, parsed_data)
GenerateFieldSpecificResponse(q, data) ==
    FieldSpecificResponse(Lower(q), TargetTaskName(Lower(q)),
                          data.tasks.overdue \o data.tasks.today \o data.tasks.upcoming)

\* generate_kanban_response(query, parsed_data)
GenerateKanbanResponse ==
    Returned("generate_kanban_response", Join(
      <<" **Your Kanban Board Overview**",
        "",
        "**Note:** For detailed Kanban information, please use the Kanban board view directly.",
        "",
        "**What I can help with:**",
        "- \"Show all my tasks\" (includes Kanban tasks)",
        "- \"Show my overdue tasks\" (includes Kanban)",
        "- \"What should I complete today?\" (includes Kanban priorities)",
        "",
        "**Try the Kanban board for:**",
        "- Visual column organization",
        "- Drag-and-drop task management",
        "- Attachment viewing",
        "- Detailed task cards">>, "\n"))

month_map ==
    <<[key |-> "january", value |-> "01"], [key |-> "february", value |-> "02"],
      [key |-> "march", value |-> "03"], [key |-> "april", value |-> "04"],
      [key |-> "may", value |-> "05"], [key |-> "june", value |-> "06"],
      [key |-> "july", value |-> "07"], [key |-> "august", value |-> "08"],
      [key |-> "september", value |-> "09"], [key |-> "october", value |-> "10"],
      [key |-> "november", value |-> "11"], [key |-> "december", value |-> "12"]>>

\* s.zfill(2)
ZFill2(s) == IF Len(s) = 0 THEN "00" ELSE IF Len(s) = 1 THEN "0" \o s ELSE s

\* the month of month_map whose name stands at i, followed by \s+\d+; 0 if none
MonthAt(s, i) ==
    LET M == {m \in 1..12 :
                LET n == Len(month_map[m].key)
                IN  /\ Slice(s, i, i + n - 1) = month_map[m].key
                    /\ IsSpace(Slice(s, i + n, i + n))
                    /\ IsDigit(Slice(s, SkipSpace(s, i + n), SkipSpace(s, i + n)))}
    IN  IF M = {} THEN 0 ELSE Min(M)

\* group 3 of the month regex, read at y, or str(datetime.now().year)
YearAt(s, y, local_today) ==
    IF y + 3 <= Len(s) /\ \A k \in y..(y + 3) : IsDigit(Char(s, k))
    THEN SubSeq(s, y, y + 3)
    ELSE SubSeq(local_today, 1, 4)

\* the date for month m with the day s[d..e]: ",?\s*(\d{4})?" follows the day
MonthDay(s, m, d, e, local_today) ==
    YearAt(s, SkipSpace(s, IF Slice(s, e + 1, e + 1) = "," THEN e + 2 ELSE e + 1),
           local_today)
    \o "-" \o month_map[m].value \o "-" \o ZFill2(SubSeq(s, d, e))

\* the date for month m named at i and its day at d
MonthDateAt(s, m, d, local_today) == MonthDay(s, m, d, DigitsEnd(s, d), local_today)

\* the date of the month-name match at i
MonthMatch(s, i, m, local_today) ==
    MonthDateAt(s, m, SkipSpace(s, i + Len(month_map[m].key)), local_today)

\* the date of the first month-name match among the positions At
FirstMonthMatch(s, At, local_today) ==
    IF At = {} THEN None ELSE MonthMatch(s, Min(At), MonthAt(s, Min(At)), local_today)

\* lines 1183-1197: the target date of the first month-name match, None if none
MonthDate(s, local_today) ==
    FirstMonthMatch(s, {i \in 1..Len(s) : MonthAt(s, i) # 0}, local_today)

\* the end of the run \d{1,hi} that starts at i and, when sep is not "", is
\* followed by sep; 0 if there is none
RunEnd(s, i, lo, hi, sep) ==
    LET Ends == {e \in (i + lo - 1)..(i + hi - 1) :
                    /\ e <= Len(s)
                    /\ \A k \in i..e : IsDigit(Char(s, k))
                    /\ (sep = "" \/ Slice(s, e + 1, e + 1) = sep)}
    IN  IF Ends = {} THEN 0 ELSE Max(Ends)

\* lines 1207-1214: the target date of the first (\d{1,2})/(\d{1,2})/(\d{2,4})
SlashDate(s) ==
    LET Ok(i) == /\ RunEnd(s, i, 1, 2, "/") # 0
                 /\ RunEnd(s, RunEnd(s, i, 1, 2, "/") + 2, 1, 2, "/") # 0
                 /\ RunEnd(s, RunEnd(s, RunEnd(s, i, 1, 2, "/") + 2, 1, 2, "/") + 2, 2, 4, "") # 0
        At == {i \in 1..Len(s) : Ok(i)}
    IN  IF At = {} THEN None
        ELSE LET i == Min(At)
                 e1 == RunEnd(s, i, 1, 2, "/")
                 e2 == RunEnd(s, e1 + 2, 1, 2, "/")
                 e3 == RunEnd(s, e2 + 2, 2, 4, "")
                 year == SubSeq(s, e2 + 2, e3)
             IN  (IF Len(year) = 2 THEN "20" \o year ELSE year)
                 \o "-" \o ZFill2(SubSeq(s, i, e1)) \o "-" \o ZFill2(SubSeq(s, e1 + 2, e2))

\* lines 1180-1215: target_date, the date of the first form that matched
FirstDate(month_date, iso_date, slash_date) ==
    IF month_date # None THEN month_date
    ELSE IF iso_date # None THEN iso_date
    ELSE slash_date

TargetDate(query_lower, local_today) ==
    FirstDate(MonthDate(query_lower, local_today), FirstIsoDate(query_lower),
              SlashDate(query_lower))

\* the order of the characters of a date: "-" before the digits
DateCharRank(c) == IF c = "-" THEN 0 ELSE IF c = "/" THEN 11 ELSE DigitVal(c) + 1

\* a >= b for strings made of digits and "-"
RECURSIVE StrGeq(_, _)
StrGeq(a, b) ==
    IF b = "" THEN TRUE
    ELSE IF a = "" THEN FALSE
    ELSE IF Char(a, 1) = Char(b, 1) THEN StrGeq(Tail(a), Tail(b))
    ELSE DateCharRank(Char(a, 1)) > DateCharRank(Char(b, 1))

\* re.sub(r'\d{4}-\d{2}-\d{2}', '', s)
RECURSIVE DropIsoDates(_)
DropIsoDates(s) ==
    IF s = "" THEN ""
    ELSE IF Len(s) >= 10 /\ IsIsoShape(SubSeq(s, 1, 10))
         THEN DropIsoDates(SubSeq(s, 11, Len(s)))
    ELSE Char(s, 1) \o DropIsoDates(Tail(s))

\* s.strip(' ,')
StripSpaceComma(s) ==
    LET I == {i \in 1..Len(s) : Char(s, i) \notin {" ", ","}}
    IN  IF I = {} THEN "" ELSE SubSeq(s, Min(I), Max(I))

\* lines 1243-1266: whether a message is kept for the target date
OnDate(msg_date, target_date, is_specific_day) ==
    /\ msg_date # None
    /\ IF is_specific_day THEN msg_date = target_date ELSE StrGeq(msg_date, target_date)

\* lines 1270-1307: the answer for the messages kept
DateMessages(date_messages, date_type, target_date) ==
    IF date_messages # <<>> THEN
        Returned("generate_date_message_response", Join(
          <<" **Messages " \o date_type \o " " \o target_date \o ":**", "">>
          \o [i \in 1..Len(date_messages) |->
                "* [" \o StripSpaceComma(DropIsoDates(date_messages[i].timestamp_str))
                \o "] **" \o date_messages[i].sender_name \o "**: "
                \o date_messages[i].message_content]
          \o <<"", " **Total**: " \o ToString(Len(date_messages)) \o " message"
                    \o (IF Len(date_messages) # 1 THEN "s" ELSE "")>>, "\n"))
    ELSE
        Returned("generate_date_message_response:none_found", Join(
          <<" **No messages found " \o date_type \o " " \o target_date \o "**",
            "",
            "**Possible reasons:**",
            "- No messages were sent/received on this date",
            "- Messages may have been archived or deleted",
            "- The date is outside the message history range",
            "",
            "**Try:**",
            "- Checking a different date",
            "- Asking \"Show all my messages\" to see available dates",
            "- Verifying the date format (October 7, 2025)",
            "">>, "\n"))

\* lines 1217-1307, given the target date
DateMessageResponse(all_messages, target_date, is_specific_day) ==
    IF target_date = None THEN
        Returned("generate_date_message_response:no_date", Join(
          <<" **Couldn't parse the date from your query.**",
            "",
            "Try asking like:",
            "- \"Did I get any messages on October 7, 2025?\"",
            "- \"Show messages from 2025-10-07\"",
            "- \"Messages from 10/7/2025\"",
            "">>, "\n"))
    ELSE DateMessages(Filter(all_messages,
                             [i \in DOMAIN all_messages |->
                                 OnDate(FirstIsoDate(all_messages[i].timestamp_str),
                                        target_date, is_specific_day)]),
                      IF is_specific_day THEN "on" ELSE "since", target_date)

\* generate_date_message_response(query, parsed_data)
GenerateDateMessageResponse(q, data, local_today) ==
    DateMessageResponse(
        data.messages.today \o data.messages.yesterday \o data.messages.this_week,
        TargetDate(Lower(q), local_today),
        Contains(Lower(q), " on ") \/ Contains(Lower(q), "messages on"))

(***************************************************************************)
(* The general response and the routing of get_rag_response.               *)
(***************************************************************************)
\* The external language model answers an invocation with a text or raises.
LlmOutcomes ==
    {[raised |-> TRUE, text |-> ""],
     [raised |-> FALSE, text |-> "  Focus on the overdue report first. "],
     [raised |-> FALSE, text |-> ""]}

\* A faulty general response: the invocation is not wrapped in try/except.
GeneralResponseUnguarded(outcome) ==
    IF outcome.raised
    THEN Raised("generate_general_response", "Exception")
    ELSE Returned("generate_general_response", Strip(outcome.text))

\* lines 1534-1546 of generate_general_response, given the invocation's outcome
GeneralResponse(outcome) ==
    IF outcome.raised
    THEN Returned("generate_general_response",
                  " Unable to process your request right now. Please try again in a moment.")
    ELSE Returned("generate_general_response", Strip(outcome.text))

\* line 705
Unavailable ==
    Returned("get_rag_response",
             " AI backend is temporarily unavailable. Please try again in a moment.")

\* lines 718-745: the handlers that do not call the language model
RouteResponse(type, q, data, local_today) ==
    IF type = "field_specific_query" THEN GenerateFieldSpecificResponse(q, data)
    ELSE IF type = "kanban_query" THEN GenerateKanbanResponse
    ELSE IF type = "date_message_query" THEN GenerateDateMessageResponse(q, data, local_today)
    ELSE IF type = "attachment_query"
         THEN Returned("get_rag_response", " Attachment queries are being processed...")
    ELSE IF type = "team_task_query" THEN GenerateTeamTaskResponse(q, data)
    ELSE IF type = "task_query" THEN GenerateTaskResponse(q, data, local_today)
    ELSE GenerateMessageResponse(q, data)

(***************************************************************************)
(* The inputs.                                                             *)
(***************************************************************************)
\* how a readiness probe can end
ProbeOutcomes == {"200", "503", "ConnectionError"}

Clock == [utc |-> "2024-01-10", local |-> "2024-01-10"]

\* phrases that between them reach every rule group of classify_query_type
QueryPhrases ==
    {"What should I complete today?", "what is the status", "message yesterday",
     "kanban task", "attachment", "team task", "did i get a message", "chat", "work",
     "told due", "hello"}

ClassifyQueries == {Join(ws, " ") : ws \in SeqUpTo(QueryPhrases, MaxPhrases)}

MemberLists == {<<>>, <<"Alice">>, <<"", "Today">>}

TaskHeader == "YOUR ACTIVE TASKS:"
OverdueLine == "* [OVERDUE] Finish report (Priority: High, Status: Active, Due: 2024-01-01)"
TodayLine == "* [DUE TODAY] Call (Priority: Low)"

\* the lines of the contexts given to parse_user_context
ParseLines ==
    {TaskHeader, OverdueLine, TodayLine, "* Buy milk", "*", "* '", "- [LOW] Tidy up",
     "Recent Messages", "* From Alice: hi (2024-01-10)"}

ParseContexts == SeqUpTo(ParseLines, MaxLines)

\* lines that move parse_user_context from section to section: the headers, user
\* markers, bullets and a line that is none of these
SectionLines ==
    {TaskHeader, "TEAM TASKS:", "Recent Messages", "@ Alice:", "@ Bob:", "@ Message Data Team:",
     "* Fix bug", "- From Bob: yo", "notes", "* Sync message data", "TEAM MESSAGES"}

SectionContexts == SeqUpTo(SectionLines, MaxLines)

\* message bullets with and without a literal marker, dated today, the day
\* before, within the week, long ago, in the future, on no day, and undated
MessageLines ==
    {"* From Alice: hi (2024-01-10)", "* From Bob: hi (2024-01-09)",
     "* TODAY: From Bob: hi (2024-01-09)", "* YESTERDAY: From Bob: hi (2024-01-10)",
     "* From Bob: old (2023-12-01)", "* From Bob: soon (2024-01-12)",
     "* From Bob: odd (2024-02-30)", "* From Bob: yo"}

MessageContexts == {<<"Recent Messages">> \o ls : ls \in SeqUpTo(MessageLines, MaxLines - 1)}

\* the queries given to generate_message_response: with and without a person,
\* by full name and by first name, with and without the words today and
\* yesterday
MessageQueries ==
    {"any message", "any message today", "any message yesterday",
     "any message today or yesterday", "message from alice", "Message from Alice today",
     "what did Alice Smith say yesterday", "did bob write today or yesterday"}

\* the contexts whose aggregation is given to generate_message_response: user
\* markers, then messages
MessageResponseContexts ==
    {users \o msgs :
        users \in {<<"">>, <<"@ Alice Smith:">>, <<"@ Bob:", "@ Alice Smith:">>},
        msgs \in {<<>>,
                  <<"Recent Messages", "* From Bob: yo (2024-01-09)">>,
                  <<"Recent Messages", "* From Alice Smith: hi (2024-01-10)">>,
                  <<"Recent Messages", "* From Alice Smith: hi (2024-01-10)",
                    "* From Bob: yo (2024-01-09)">>}}

\* the lines of the contexts parse_user_context is called on twice
TwiceLines ==
    {TaskHeader, OverdueLine, "@ Alice:", "Recent Messages", "* From Alice: hi (2024-01-10)",
     "* From Bob: old (2023-12-01)"}

TwiceContexts == SeqUpTo(TwiceLines, MaxLines)

\* the dates the second call can fall on: the same day, or the next
LaterClocks == {Clock, [utc |-> "2024-01-11", local |-> "2024-01-11"]}

\* the requests given to get_rag_response: one query for each intent
RagQueries ==
    {"What should I complete today?", "show my overdue tasks", "did I get any message",
     "tell me a joke", "show all team tasks", "what is the status of my task called call",
     "show my kanban board", "any attachment", "messages from last week",
     "Did I get any message from Alice today?"}

RagContexts ==
    SeqUpTo({TaskHeader, OverdueLine, TodayLine}, MaxLines)
    \cup {<<"">>, <<"   ">>, <<"", " ">>, <<"@ :">>, <<"@ Alice:", TodayLine>>,
          <<"Recent Messages", "* From Alice: hi (2024-01-10)">>,
          <<"Recent Messages", "* From Bob: hi (2024-01-10)">>,
          <<"@ Alice:", "Recent Messages", "* From Bob: hi (2024-01-10)">>}
    \cup {<<TaskHeader, "* [OVERDUE] Fix">>,
          <<TaskHeader, "* [OVERDUE] Odd (Due: 2024-02-30)">>,
          <<TaskHeader, "* [OVERDUE] Soon (Due: 2024-01-12)">>}
    \cup {<<"@ Alice:">> \o ls :
             ls \in SeqUpTo({OverdueLine, TodayLine, "* Buy milk", "@ Bob:"}, MaxLines - 1)}

\* the context generate_insight passes when the body has no "context": the
\* dict {}, which is no string; it stands as the one entry "<{}>", which no
\* line of a context is
EmptyDict == <<"<{}>">>

\* no request body: the call is no call of an endpoint
NoPayload == [has_query |-> FALSE, query |-> "", has_context |-> FALSE, context |-> <<>>]

\* the endpoint has not answered
NoResponse == [kind |-> "none", text |-> ""]

(***************************************************************************)
(* The initial states: a call of one of the functions, nothing done yet.   *)
(***************************************************************************)
Fresh ==
    /\ probes = 0
    /\ probe = None
    /\ ollama_ready = FALSE
    /\ line_num = 0
    /\ current_section = None
    /\ current_user = None
    /\ parsed_data = NoRecord
    /\ branches = <<>>
    /\ query_type = None
    /\ llm_calls = <<>>
    /\ result = Pending
    /\ previous = NoRecord
    /\ payload = NoPayload
    /\ response = NoResponse

\* wait_for_ollama(timeout)
InitWait ==
    /\ entry = "wait_for_ollama"
    /\ pc = "wait"
    /\ timeout \in 0..MaxTimeout
    /\ query = ""
    /\ user_context = <<"">>
    /\ member_hint = <<>>
    /\ clock = Clock
    /\ Fresh

\* classify_query_type(query, team_members)
InitClassify ==
    /\ entry = "classify_query_type"
    /\ pc = "classify"
    /\ timeout = DefaultTimeout
    /\ query \in ClassifyQueries
    /\ user_context = <<"">>
    /\ member_hint \in MemberLists
    /\ clock = Clock
    /\ Fresh

\* parse_user_context(user_context)
InitParse ==
    /\ entry = "parse_user_context"
    /\ pc = "parse"
    /\ timeout = DefaultTimeout
    /\ query = ""
    /\ user_context \in ParseContexts
    /\ member_hint = <<>>
    /\ clock = Clock
    /\ Fresh

\* parse_user_context(user_context) on the contexts made of SectionLines
InitParseSections ==
    /\ entry = "parse_user_context"
    /\ pc = "parse"
    /\ timeout = DefaultTimeout
    /\ query = ""
    /\ user_context \in SectionContexts
    /\ member_hint = <<>>
    /\ clock = Clock
    /\ Fresh

\* parse_user_context(user_context) on a messages section
InitParseMessages ==
    /\ entry = "parse_user_context"
    /\ pc = "parse"
    /\ timeout = DefaultTimeout
    /\ query = ""
    /\ user_context \in MessageContexts
    /\ member_hint = <<>>
    /\ clock = Clock
    /\ Fresh

\* generate_message_response(query, parsed_data) on the aggregation of a context
InitMessageResponse ==
    /\ entry = "generate_message_response"
    /\ pc = "respond"
    /\ timeout = DefaultTimeout
    /\ query \in MessageQueries
    /\ user_context \in MessageResponseContexts
    /\ member_hint = <<>>
    /\ clock = Clock
    /\ probes = 0
    /\ probe = None
    /\ ollama_ready = FALSE
    /\ line_num = 0
    /\ current_section = None
    /\ current_user = None
    /\ parsed_data = ParseUserContext(user_context, clock.utc)
    /\ branches = <<>>
    /\ query_type = None
    /\ llm_calls = <<>>
    /\ result = Pending
    /\ previous = NoRecord
    /\ payload = NoPayload
    /\ response = NoResponse

\* the bodies sent to POST /generate-insight: with and without each field
InsightPayloads ==
    {[has_query |-> hq, query |-> IF hq THEN q ELSE "",
      has_context |-> hc, context |-> IF hc THEN c ELSE <<>>] :
        hq \in BOOLEAN, hc \in BOOLEAN,
        q \in {"show my overdue tasks", "tell me a joke"},
        c \in {<<"">>, <<TaskHeader, OverdueLine>>}}

\* POST /generate-insight with a body
InitInsight ==
    /\ entry = "generate_insight"
    /\ pc = "insight"
    /\ timeout = DefaultTimeout
    /\ query = ""
    /\ user_context = EmptyDict
    /\ member_hint = <<>>
    /\ clock = Clock
    /\ probes = 0
    /\ probe = None
    /\ ollama_ready = FALSE
    /\ line_num = 0
    /\ current_section = None
    /\ current_user = None
    /\ parsed_data = NoRecord
    /\ branches = <<>>
    /\ query_type = None
    /\ llm_calls = <<>>
    /\ result = Pending
    /\ previous = NoRecord
    /\ payload \in InsightPayloads
    /\ response = NoResponse

\* parse_user_context(user_context), to be called a second time on its return
InitParseTwice ==
    /\ entry = "parse_user_context"
    /\ pc = "parse"
    /\ timeout = DefaultTimeout
    /\ query = ""
    /\ user_context \in TwiceContexts
    /\ member_hint = <<>>
    /\ clock = Clock
    /\ Fresh

\* get_rag_response(query, user_context)
Init ==
    /\ entry = "get_rag_response"
    /\ pc = "wait"
    /\ timeout = DefaultTimeout
    /\ query \in RagQueries
    /\ user_context \in RagContexts
    /\ member_hint = <<>>
    /\ clock = Clock
    /\ Fresh

(***************************************************************************)
(* wait_for_ollama.                                                        *)
(***************************************************************************)
\* where wait_for_ollama returns to
AfterWait == IF entry = "wait_for_ollama" THEN "done" ELSE "ready_check"

\* A faulty loop: a probe answered with status 200 is noted but the loop goes on.
WaitProbeNoReturn ==
    /\ pc = "wait"
    /\ probes < timeout
    /\ \E outcome \in ProbeOutcomes :
        /\ probes' = probes + 1
        /\ probe' = outcome
        /\ ollama_ready' = (ollama_ready \/ outcome = "200")
    /\ UNCHANGED <<entry, pc, query, user_context, member_hint, timeout, line_num,
                   current_section, current_user, parsed_data, branches, query_type,
                   clock, llm_calls, result, previous,
                   payload, response>>

\* lines 9-16: one pass of the loop, a probe and, unless it is answered with
\* status 200, the sleep
WaitProbe ==
    /\ pc = "wait"
    /\ probes < timeout
    /\ \E outcome \in ProbeOutcomes :
        /\ probes' = probes + 1
        /\ probe' = outcome
        /\ IF outcome = "200"
           THEN ollama_ready' = TRUE /\ pc' = AfterWait
           ELSE UNCHANGED <<ollama_ready, pc>>
    /\ UNCHANGED <<entry, query, user_context, member_hint, timeout, line_num,
                   current_section, current_user, parsed_data, branches, query_type,
                   clock, llm_calls, result, previous,
                   payload, response>>

\* lines 17-18: the loop is exhausted
WaitGiveUp ==
    /\ pc = "wait"
    /\ probes >= timeout
    /\ pc' = AfterWait
    /\ UNCHANGED <<entry, query, user_context, member_hint, timeout, probes, probe, ollama_ready,
                   line_num, current_section, current_user, parsed_data, branches,
                   query_type, clock, llm_calls, result, previous,
                   payload, response>>

(***************************************************************************)
(* parse_user_context.                                                     *)
(***************************************************************************)
AfterParse == IF entry = "parse_user_context" THEN "done" ELSE "classify"

\* where get_rag_response returns to, or its exception goes
AfterRag == IF entry = "generate_insight" THEN "answer" ELSE "done"

\* A faulty start: parsed_data is a dictionary of the module, built once and
\* used again by the next call.
ParseBeginShared ==
    /\ pc = "parse"
    /\ parsed_data' = IF parsed_data = NoRecord THEN EmptyParsedData ELSE parsed_data
    /\ current_section' = None
    /\ current_user' = None
    /\ line_num' = 0
    /\ branches' = <<>>
    /\ pc' = IF IsBlankContext(user_context) THEN AfterParse ELSE "parse_loop"
    /\ UNCHANGED <<entry, query, user_context, member_hint, timeout, probes, probe, ollama_ready,
                   query_type, clock, llm_calls, result, previous,
                   payload, response>>

\* lines 24-58: the preview of line 26 slices the context, which raises on the
\* dict {} (TypeError, from Python 3.12 on KeyError); else parsed_data and the
\* locals of the loop are built, and a blank context is returned at once
ParseBegin ==
    /\ pc = "parse"
    /\ IF user_context = EmptyDict
       THEN /\ \E error \in {"TypeError", "KeyError"} :
                 result' = Raised("parse_user_context", error)
            /\ pc' = AfterRag
            /\ UNCHANGED <<parsed_data, current_section, current_user, line_num, branches>>
       ELSE /\ parsed_data' = EmptyParsedData
            /\ current_section' = None
            /\ current_user' = None
            /\ line_num' = 0
            /\ branches' = <<>>
            /\ pc' = IF IsBlankContext(user_context) THEN AfterParse ELSE "parse_loop"
            /\ UNCHANGED result
    /\ UNCHANGED <<entry, query, user_context, member_hint, timeout, probes, probe, ollama_ready,
                   query_type, clock, llm_calls, previous, payload, response>>

\* lines 60-178: one pass of the loop
ParseLine ==
    /\ pc = "parse_loop"
    /\ line_num < Len(user_context)
    /\ LET st == ParseStep([section |-> current_section, user |-> current_user,
                            data |-> parsed_data, branch |-> None],
                           user_context[line_num + 1], clock.utc)
       IN  /\ line_num' = line_num + 1
           /\ current_section' = st.section
           /\ current_user' = st.user
           /\ parsed_data' = st.data
           /\ branches' = Append(branches, st.branch)
    /\ UNCHANGED <<entry, pc, query, user_context, member_hint, timeout, probes, probe,
                   ollama_ready, query_type, clock, llm_calls, result, previous,
                   payload, response>>

\* lines 180-194: the loop is over, parsed_data is returned
ParseReturn ==
    /\ pc = "parse_loop"
    /\ line_num = Len(user_context)
    /\ pc' = AfterParse
    /\ UNCHANGED <<entry, query, user_context, member_hint, timeout, probes, probe, ollama_ready,
                   line_num, current_section, current_user, parsed_data, branches,
                   query_type, clock, llm_calls, result, previous,
                   payload, response>>

\* the caller keeps what parse_user_context returned and calls it again on the
\* same context, the same day or the next
ParseAgain ==
    /\ entry = "parse_user_context"
    /\ pc = "done"
    /\ previous = NoRecord
    /\ previous' = parsed_data
    /\ \E later \in LaterClocks : clock' = later
    /\ pc' = "parse"
    /\ UNCHANGED <<entry, query, user_context, member_hint, timeout, probes, probe, ollama_ready,
                   line_num, current_section, current_user, parsed_data, branches,
                   query_type, llm_calls, result,
                   payload, response>>

(***************************************************************************)
(* classify_query_type and get_rag_response.                               *)
(***************************************************************************)
\* line 714 (or a direct call): the query is classified
Classify ==
    /\ pc = "classify"
    /\ query_type' = ClassifyQueryType(query, IF entry = "classify_query_type"
                                              THEN member_hint
                                              ELSE parsed_data.team_members)
    /\ pc' = IF entry = "classify_query_type" THEN "done" ELSE "route"
    /\ UNCHANGED <<entry, query, user_context, member_hint, timeout, probes, probe, ollama_ready,
                   line_num, current_section, current_user, parsed_data, branches, clock,
                   llm_calls, result, previous,
                   payload, response>>

\* A faulty entry: the value wait_for_ollama returned is not looked at.
RagCheckReadyIgnored ==
    /\ pc = "ready_check"
    /\ probes' = 0
    /\ probe' = None
    /\ pc' = "parse"
    /\ UNCHANGED <<entry, query, user_context, member_hint, timeout, ollama_ready, line_num,
                   current_section, current_user, parsed_data, branches, query_type, clock,
                   llm_calls, result, previous,
                   payload, response>>

\* lines 704-708: wait_for_ollama has returned; its locals are gone
RagCheckReady ==
    /\ pc = "ready_check"
    /\ probes' = 0
    /\ probe' = None
    /\ IF ollama_ready
       THEN pc' = "parse" /\ UNCHANGED result
       ELSE pc' = AfterRag /\ result' = Unavailable
    /\ UNCHANGED <<entry, query, user_context, member_hint, timeout, ollama_ready, line_num,
                   current_section, current_user, parsed_data, branches, query_type, clock,
                   llm_calls, previous,
                   payload, response>>

\* A faulty routing: a task query over no tasks is handed to the language model
\* before the handler answers.
RagRouteAsksModel ==
    /\ pc = "route"
    /\ query_type # "general_query"
    /\ result' = RouteResponse(query_type, query, parsed_data, clock.local)
    /\ \E outcome \in LlmOutcomes :
        llm_calls' = IF query_type = "task_query" /\ parsed_data.tasks.total_count = 0
                     THEN Append(llm_calls, outcome) ELSE llm_calls
    /\ pc' = AfterRag
    /\ UNCHANGED <<entry, query, user_context, member_hint, timeout, probes, probe, ollama_ready,
                   line_num, current_section, current_user, parsed_data, branches,
                   query_type, clock, previous,
                   payload, response>>

\* lines 718-745: the handler of the intent answers, or raises
RagRoute ==
    /\ pc = "route"
    /\ query_type # "general_query"
    /\ result' = RouteResponse(query_type, query, parsed_data, clock.local)
    /\ pc' = AfterRag
    /\ UNCHANGED <<entry, query, user_context, member_hint, timeout, probes, probe, ollama_ready,
                   line_num, current_section, current_user, parsed_data, branches,
                   query_type, clock, llm_calls, previous,
                   payload, response>>

\* lines 747-749: generate_general_response invokes the language model
RagGeneral ==
    /\ pc = "route"
    /\ query_type = "general_query"
    /\ \E outcome \in LlmOutcomes :
        /\ llm_calls' = Append(llm_calls, outcome)
        /\ result' = GeneralResponse(outcome)
    /\ pc' = AfterRag
    /\ UNCHANGED <<entry, query, user_context, member_hint, timeout, probes, probe, ollama_ready,
                   line_num, current_section, current_user, parsed_data, branches,
                   query_type, clock, previous,
                   payload, response>>

(***************************************************************************)
(* main.py: POST /generate-insight.                                        *)
(***************************************************************************)
\* lines 22-26: the fields of the body, with their defaults, are passed to
\* get_rag_response
InsightBegin ==
    /\ entry = "generate_insight"
    /\ pc = "insight"
    /\ query' = IF payload.has_query THEN payload.query ELSE ""
    /\ user_context' = IF payload.has_context THEN payload.context ELSE EmptyDict
    /\ pc' = "wait"
    /\ UNCHANGED <<entry, member_hint, timeout, probes, probe, ollama_ready, line_num,
                   current_section, current_user, parsed_data, branches, query_type, clock,
                   llm_calls, result, previous, payload, response>>

\* rag_result["type"] where rag_result is a str: indexing a str by a str raises
StrItem(rag_result, key) == Raised("generate_insight", "TypeError")

\* lines 26-66: the value get_rag_response returned is formatted, and whatever
\* was raised on the way is answered as an error
InsightResponse(rag_result) ==
    IF rag_result.status = "raised" THEN [kind |-> "error", text |-> rag_result.text]
    ELSE IF StrItem(rag_result.text, "type").status = "raised"
         THEN [kind |-> "error", text |-> StrItem(rag_result.text, "type").text]
    ELSE [kind |-> "result", text |-> StrItem(rag_result.text, "data").text]

InsightAnswer ==
    /\ entry = "generate_insight"
    /\ pc = "answer"
    /\ response' = InsightResponse(result)
    /\ pc' = "done"
    /\ UNCHANGED <<entry, query, user_context, member_hint, timeout, probes, probe, ollama_ready,
                   line_num, current_section, current_user, parsed_data, branches,
                   query_type, clock, llm_calls, result, previous, payload>>

\* lines 1399-1426: generate_message_response called by itself
MessageRespond ==
    /\ entry = "generate_message_response"
    /\ pc = "respond"
    /\ result' = GenerateMessageResponse(query, parsed_data)
    /\ pc' = "done"
    /\ UNCHANGED <<entry, query, user_context, member_hint, timeout, probes, probe, ollama_ready,
                   line_num, current_section, current_user, parsed_data, branches,
                   query_type, clock, llm_calls, previous,
                   payload, response>>

(***************************************************************************)
(* The specifications, one for each function a caller invokes.             *)
(***************************************************************************)
NextWait == WaitProbe \/ WaitGiveUp

SpecWait == InitWait /\ [][NextWait]_vars

\* each pass of the loop ends: the probe is answered or fails, the sleep is over
SpecWaitFair == SpecWait /\ WF_vars(NextWait)

NextClassify == Classify

SpecClassify == InitClassify /\ [][NextClassify]_vars

NextParse == ParseBegin \/ ParseLine \/ ParseReturn

SpecParse == InitParse /\ [][NextParse]_vars

SpecParseSections == InitParseSections /\ [][NextParse]_vars

SpecParseMessages == InitParseMessages /\ [][NextParse]_vars

SpecMessageResponse == InitMessageResponse /\ [][MessageRespond]_vars

NextInsight ==
    \/ InsightBegin
    \/ WaitProbe
    \/ WaitGiveUp
    \/ RagCheckReady
    \/ ParseBegin
    \/ ParseLine
    \/ ParseReturn
    \/ Classify
    \/ RagRoute
    \/ RagGeneral
    \/ InsightAnswer

SpecInsight == InitInsight /\ [][NextInsight]_vars

NextParseTwice == ParseBegin \/ ParseLine \/ ParseReturn \/ ParseAgain

SpecParseTwice == InitParseTwice /\ [][NextParseTwice]_vars

Next ==
    \/ WaitProbe
    \/ WaitGiveUp
    \/ RagCheckReady
    \/ ParseBegin
    \/ ParseLine
    \/ ParseReturn
    \/ Classify
    \/ RagRoute
    \/ RagGeneral

Spec == Init /\ [][Next]_vars

(***************************************************************************)
(* The properties.                                                         *)
(***************************************************************************)
\* the lines consumed so far that were parsed as personal tasks
TaskLines == {i \in 1..line_num : branches[i] = "task"}

\* the record parse_task_line makes of line i of the context
ParsedTask(i) == ParseTaskLine(Strip(user_context[i]))

\* how often a record occurs in a bucket
CountIn(bucket, rec) == Cardinality({k \in DOMAIN bucket : bucket[k] = rec})

Members(bucket) == {bucket[k] : k \in DOMAIN bucket}

\* C1: during and after parse_user_context, every task record parsed in the
\* personal-tasks section is in exactly one of the buckets overdue, today and
\* upcoming (as often as it was parsed), the buckets hold nothing else, and no
\* record is in two buckets.
C1_TaskBucketsExclusive ==
    parsed_data # NoRecord =>
        /\ \A i \in TaskLines :
            CountIn(parsed_data.tasks.overdue, ParsedTask(i))
            + CountIn(parsed_data.tasks.today, ParsedTask(i))
            + CountIn(parsed_data.tasks.upcoming, ParsedTask(i))
            = Cardinality({j \in TaskLines : ParsedTask(j) = ParsedTask(i)})
        /\ Len(parsed_data.tasks.overdue) + Len(parsed_data.tasks.today)
           + Len(parsed_data.tasks.upcoming) = Cardinality(TaskLines)
        /\ parsed_data.tasks.total_count = Cardinality(TaskLines)
        /\ Members(parsed_data.tasks.overdue) \cap Members(parsed_data.tasks.today) = {}
        /\ Members(parsed_data.tasks.overdue) \cap Members(parsed_data.tasks.upcoming) = {}
        /\ Members(parsed_data.tasks.today) \cap Members(parsed_data.tasks.upcoming) = {}

\* parse_user_context has returned with an overdue task and a task due today
C1_Witness ==
    /\ entry = "parse_user_context"
    /\ pc = "done"
    /\ Cardinality(TaskLines) = 2
    /\ parsed_data.tasks.overdue # <<>>
    /\ parsed_data.tasks.today # <<>>

\* C2: whenever the overdue bucket is non-empty, the text generate_task_response
\* returns is the overdue response, whatever the wording of the query and also
\* when the due-today bucket is non-empty.
C2_OverdueAlwaysFirst ==
    (pc = "done" /\ query_type = "task_query" /\ parsed_data.tasks.overdue # <<>>)
        => result.by = "handle_overdue_tasks"

\* C3: get_rag_response returns a text and never raises, whatever the query and
\* the lines of the context.
C3_NeverRaises == pc = "done" => result.status = "returned"

\* C4: if the invocation of the language model raises, generate_general_response
\* returns the fixed apology and nothing is raised to the caller.
C4_ApologyOnLlmFailure ==
    (llm_calls # <<>> /\ llm_calls[Len(llm_calls)].raised) =>
        result = [status |-> "returned", by |-> "generate_general_response",
                  text |-> " Unable to process your request right now. Please try again in a moment."]

\* the language model was invoked and raised
C4_Witness ==
    /\ pc = "done"
    /\ query_type = "general_query"
    /\ Len(llm_calls) = 1
    /\ llm_calls[1].raised
    /\ result.status = "returned"

\* C5: when no readiness probe is answered with status 200, get_rag_response
\* returns the fixed unavailability text; the context is not parsed, the query is
\* not classified, the language model is not invoked and nothing is raised.
C5_UnavailableWithoutWork ==
    ~ollama_ready =>
        /\ pc \in {"wait", "ready_check", "done"}
        /\ parsed_data = NoRecord
        /\ branches = <<>>
        /\ query_type = None
        /\ llm_calls = <<>>
        /\ pc = "done" =>
            result = [status |-> "returned", by |-> "get_rag_response",
                      text |-> " AI backend is temporarily unavailable. Please try again in a moment."]

\* get_rag_response has returned after wait_for_ollama gave up
C5_Witness ==
    /\ entry = "get_rag_response"
    /\ pc = "done"
    /\ ~ollama_ready
    /\ result.status = "returned"

\* C6: wait_for_ollama(timeout) terminates and makes at most timeout probes; it
\* returns True exactly at the first probe answered with status 200, after which
\* no probe is made, and returns False only once timeout probes have failed.
C6_WaitTerminates ==
    /\ [](probes <= timeout)
    /\ [](ollama_ready <=> probe = "200")
    /\ [](ollama_ready => pc = "done")
    /\ [][probe = "200" => probes' = probes]_vars
    /\ []((pc = "done" /\ ~ollama_ready) => probes = timeout)
    /\ <>(pc = "done")

\* wait_for_ollama has returned True at a probe that followed a failed one,
\* with probes to spare
C6_Witness ==
    /\ entry = "wait_for_ollama"
    /\ pc = "done"
    /\ ollama_ready
    /\ 1 < probes
    /\ probes < timeout

\* the rule groups, in the order in which C7 says they are tried
RuleGroups ==
    <<[patterns |-> field_specific_patterns, intent |-> "field_specific_query"],
      [patterns |-> date_message_patterns, intent |-> "date_message_query"],
      [patterns |-> kanban_patterns, intent |-> "kanban_query"],
      [patterns |-> attachment_patterns, intent |-> "attachment_query"],
      [patterns |-> team_task_patterns, intent |-> "team_task_query"],
      [patterns |-> strong_task_patterns, intent |-> "task_query"],
      [patterns |-> strong_message_patterns, intent |-> "message_query"]>>

\* the rule groups a query matches
GroupsMatched(q) ==
    {i \in DOMAIN RuleGroups : AnyPattern(RuleGroups[i].patterns, Lower(q))}

\* C7: classify_query_type returns the intent of the first rule group the query
\* matches, in the order field-specific, date-message, kanban, attachment,
\* team-task, strong task phrases, strong message phrases; keyword scoring
\* decides only when no group matches.
C7_OrderedDecisionList ==
    (pc = "done" /\ entry = "classify_query_type") =>
        /\ \A i \in GroupsMatched(query) :
            (\A j \in GroupsMatched(query) : i <= j) => query_type = RuleGroups[i].intent
        /\ GroupsMatched(query) = {}
            => query_type \in {"task_query", "message_query", "general_query"}

\* a query that matches two groups of different intents has been classified
C7_Witness ==
    /\ entry = "classify_query_type"
    /\ pc = "done"
    /\ \E i, j \in GroupsMatched(query) : i < j
    /\ query_type = "field_specific_query"

\* the keywords of a list that occur in the query
KeywordCount(keywords, q) ==
    Cardinality({k \in DOMAIN keywords : Contains(Lower(q), keywords[k])})

\* C8: when no rule group matches, classify_query_type returns the intent with
\* the higher keyword count, task_query on a non-zero tie, and general_query
\* exactly when both counts are zero.
C8_KeywordScoring ==
    (pc = "done" /\ entry = "classify_query_type" /\ GroupsMatched(query) = {}) =>
        /\ KeywordCount(task_keywords, query) > KeywordCount(message_keywords, query)
            => query_type = "task_query"
        /\ KeywordCount(task_keywords, query) < KeywordCount(message_keywords, query)
            => query_type = "message_query"
        /\ (/\ KeywordCount(task_keywords, query) = KeywordCount(message_keywords, query)
            /\ KeywordCount(task_keywords, query) > 0)
            => query_type = "task_query"
        /\ query_type = "general_query"
            <=> (/\ KeywordCount(task_keywords, query) = 0
                 /\ KeywordCount(message_keywords, query) = 0)

\* a query that matches no group and has a non-zero tie has been classified
C8_Witness ==
    /\ entry = "classify_query_type"
    /\ pc = "done"
    /\ GroupsMatched(query) = {}
    /\ KeywordCount(task_keywords, query) = KeywordCount(message_keywords, query)
    /\ KeywordCount(task_keywords, query) > 0
    /\ query_type = "task_query"

\* C9: the intent does not depend on the team-member list, and the query
\* "What should I complete today?" is a task_query.
C9_MembersIrrelevant ==
    (pc = "done" /\ entry = "classify_query_type") =>
        /\ \A members \in MemberLists : ClassifyQueryType(query, members) = query_type
        /\ query = "What should I complete today?" => query_type = "task_query"

\* the query has been classified with a member list that holds an empty name and
\* a word of the query
C9_Witness ==
    /\ entry = "classify_query_type"
    /\ pc = "done"
    /\ query = "What should I complete today?"
    /\ member_hint = <<"", "Today">>
    /\ query_type = "task_query"

\* a context that is empty or holds nothing but whitespace
BlankContext == \A i \in DOMAIN user_context : Strip(user_context[i]) = ""

\* C10: for an empty or whitespace-only context, parse_user_context returns every
\* task and message bucket empty and every count zero, and a task_query is then
\* answered by handle_no_tasks without raising.
C10_BlankContextNoTasks ==
    (BlankContext /\ parsed_data # NoRecord) =>
        /\ parsed_data.tasks = [overdue |-> <<>>, today |-> <<>>, upcoming |-> <<>>,
                                total_count |-> 0]
        /\ parsed_data.messages.today = <<>>
        /\ parsed_data.messages.yesterday = <<>>
        /\ parsed_data.messages.this_week = <<>>
        /\ parsed_data.messages.by_sender = <<>>
        /\ parsed_data.messages.total_count = 0
        /\ (pc = "done" /\ query_type = "task_query") =>
            /\ result.status = "returned"
            /\ result.by = "handle_no_tasks"

\* a task query has been answered for a whitespace-only context
C10_Witness ==
    /\ entry = "get_rag_response"
    /\ pc = "done"
    /\ user_context = <<"", " ">>
    /\ query_type = "task_query"
    /\ result.status = "returned"

\* the lines of the context read so far that, stripped, are the overdue bullet
OverdueBullets == {i \in 1..line_num : Strip(user_context[i]) = OverdueLine}

\* C11: for a context that contains the bullet "[OVERDUE] Finish report
\* (Priority: High, Status: Active, Due: 2024-01-01)", whatever lines precede it
\* (a section header or none), parse_user_context records Finish report in the
\* overdue bucket with priority High.
C11_OverdueBulletRecorded ==
    (entry = "parse_user_context" /\ pc = "done" /\ OverdueBullets # {}) =>
        \E k \in DOMAIN parsed_data.tasks.overdue :
            /\ parsed_data.tasks.overdue[k].task_name = "Finish report"
            /\ parsed_data.tasks.overdue[k].priority = "High"

\* C12: a message query that names a person (here Alice) is answered by
\* handle_person_specific_messages, whether or not the person stands under a
\* user marker in the context: the answer shows no message of another sender,
\* and when no message is from that person it is the "No recent messages from
\* Alice" text.
C12_PersonSpecificMessages ==
    (/\ pc = "done"
     /\ query_type = "message_query"
     /\ Contains(Lower(query), "alice")) =>
        /\ result.status = "returned"
        /\ result.by = "handle_person_specific_messages"
        /\ ~Contains(result.text, "Bob")
        /\ (\A i \in DOMAIN parsed_data.messages.by_sender :
               ~Contains(Lower(parsed_data.messages.by_sender[i].key), "alice"))
            => StartsWith(result.text, " **No recent messages from Alice")

\* C13 as stated: a second call of parse_user_context on the same context returns
\* what the first call returned (same buckets, order, counts and team_members).
C13_SecondCallSameResult ==
    (pc = "done" /\ previous # NoRecord) => parsed_data = previous

\* C13 as it holds: a second call of parse_user_context on the same context, on
\* the same UTC date, returns what the first call returned; nothing of the first
\* call is kept.
C13_SecondCallSameResultSameDay ==
    (pc = "done" /\ previous # NoRecord /\ clock.utc = Clock.utc) => parsed_data = previous

\* the second call has returned, the same day, for a context with a team member
\* and a message
C13_Witness ==
    /\ pc = "done"
    /\ previous # NoRecord
    /\ clock.utc = Clock.utc
    /\ previous.team_members # <<>>
    /\ previous.messages.total_count > 0
    /\ parsed_data.messages.total_count > 0

\* the name a line gives after the user marker: the text between the marker and
\* the first colon after it, stripped; None when the line does not begin with the
\* marker or has no name there
MarkerName(line) ==
    IF StartsWith(line, "@") /\ NextChar(line, ":", 1) > 2
       /\ Strip(SubSeq(line, 2, NextChar(line, ":", 1) - 1)) # ""
    THEN Strip(SubSeq(line, 2, NextChar(line, ":", 1) - 1))
    ELSE None

\* the line parse_user_context has just read, stripped
LastLine == Strip(user_context[line_num])

\* C14: once parse_user_context has read a line that begins with the user marker
\* followed by "Name:", the current section is team_tasks, the current user is
\* Name and Name is in team_members, whatever the section was before.
C14_UserMarkerSetsTeamSection ==
    (pc = "parse_loop" /\ line_num > 0 /\ MarkerName(LastLine) # None) =>
        /\ current_section = "team_tasks"
        /\ current_user = MarkerName(LastLine)
        /\ \E k \in DOMAIN parsed_data.team_members :
               parsed_data.team_members[k] = MarkerName(LastLine)

\* a line that matches no section header and does not begin with the user marker
Unrecognised(line) ==
    /\ ~IsPersonalHeader(line)
    /\ ~IsTeamHeader(line)
    /\ ~IsMessageHeader2(line)
    /\ ~StartsWith(line, "@")

\* C15: when parse_user_context reads a line that matches no known section
\* header and is no user-marker line, the current section and the current user
\* stay as they were and the loop goes on (nothing is raised).
C15_UnrecognisedLineKeepsSection ==
    [][(/\ pc = "parse_loop"
        /\ line_num' = line_num + 1
        /\ Unrecognised(Strip(user_context[line_num + 1])))
       => (/\ current_section' = current_section
           /\ current_user' = current_user
           /\ pc' = "parse_loop")]_vars

\* a line that is neither header, marker nor bullet has been read in the
\* team-tasks section under a user
C15_Witness ==
    /\ pc = "parse_loop"
    /\ line_num > 1
    /\ LastLine = "notes"
    /\ current_section = "team_tasks"
    /\ current_user = "Alice"

\* the lines consumed so far that were handed to parse_task_line in the
\* personal-tasks section
TaskBullets == {i \in 1..line_num : branches[i] \in {"task", "task_failed"}}

\* whether every character of the line is whitespace or one of the given glyphs
OnlyOf(line, glyphs) ==
    \A k \in 1..Len(line) : IsSpace(Char(line, k)) \/ Char(line, k) \in glyphs

\* the bullet glyphs, and the characters the pattern of line 203 strips
BulletGlyphs == {"*", ">", "-"}
StrippedGlyphs == BulletGlyphs \cup {"'"}

\* whether the line holds a bracketed tag that is followed by text
HasTag(line) ==
    \E b \in 1..Len(line) : \E e \in (b + 2)..(Len(line) - 1) :
        /\ Char(line, b) = "["
        /\ Char(line, e) = "]"
        /\ \A k \in (b + 1)..(e - 1) : Char(line, k) # "]"
        /\ ~OnlyOf(SubSeq(line, e + 1, Len(line)), {})

\* the records of the three task buckets, and the line of the only task so far
AllTasks == parsed_data.tasks.overdue \o parsed_data.tasks.today \o parsed_data.tasks.upcoming
OnlyTaskLine == Strip(user_context[CHOOSE i \in TaskLines : TRUE])

\* the record of the only task so far has the defaults of the fields its line
\* does not hold
DefaultsOfOnlyTask ==
    (Cardinality(TaskLines) = 1 /\ Len(AllTasks) = 1) =>
        /\ ~HasTag(OnlyTaskLine) =>
            /\ AllTasks[1].urgency = "Unknown"
            /\ AllTasks[1].priority = "Medium"
            /\ AllTasks[1].status = "Active"
            /\ AllTasks[1].due_date = "No date"
        /\ ~Contains(Lower(OnlyTaskLine), "priority:") => AllTasks[1].priority = "Medium"
        /\ ~Contains(Lower(OnlyTaskLine), "status:") => AllTasks[1].status = "Active"
        /\ ~Contains(Lower(OnlyTaskLine), "due:") => AllTasks[1].due_date = "No date"

\* C16: parse_task_line returns None exactly for a line that is empty once
\* bullet glyphs and whitespace are stripped; every other line gives a record,
\* with urgency "Unknown" when it holds no bracketed tag and with priority
\* "Medium", status "Active" and due_date "No date" for the fields not matched.
C16_NullOnlyForEmptyLine ==
    parsed_data # NoRecord =>
        /\ \A i \in TaskBullets :
            branches[i] = "task_failed" <=> OnlyOf(Strip(user_context[i]), BulletGlyphs)
        /\ DefaultsOfOnlyTask

\* C16 as the code has it: the characters stripped from the head of the line are
\* whitespace, the bullet glyphs and the apostrophe, so that a line of these
\* alone gives None as well.
C16_NullOnlyForStrippedLine ==
    parsed_data # NoRecord =>
        /\ \A i \in TaskBullets :
            branches[i] = "task_failed" <=> OnlyOf(Strip(user_context[i]), StrippedGlyphs)
        /\ DefaultsOfOnlyTask

\* a bullet with an apostrophe alone gave None, and the untagged bullet after it
\* the minimal record
C16_Witness ==
    /\ pc = "parse_loop"
    /\ line_num = 3
    /\ Strip(user_context[2]) = "* '"
    /\ branches[2] = "task_failed"
    /\ Strip(user_context[3]) = "* Buy milk"
    /\ branches[3] = "task"
    /\ Len(AllTasks) = 1
    /\ AllTasks[1].urgency = "Unknown"

\* the branches of the loop body that add a record to the aggregation
RecordingBranches == {"task", "team_task", "message"}

\* whether the bullet holds anything after its glyphs
NonEmptyBullet(line) == IsBullet(line) /\ ~OnlyOf(line, StrippedGlyphs)

\* C17: every non-empty bulleted line that parse_user_context reads while the
\* current section is personal tasks, team tasks or messages adds a record to
\* the aggregation; none is dropped, also not a bullet under a team header
\* before any user marker.
C17_NoBulletDropped ==
    (/\ pc = "parse_loop"
     /\ line_num > 0
     /\ NonEmptyBullet(LastLine)
     /\ current_section \in {"tasks", "team_tasks", "messages"})
    => branches[line_num] \in RecordingBranches

\* the lines consumed so far that were parsed as messages, the records of the
\* message buckets, and the line of the only message so far
MessageBullets == {i \in 1..line_num : branches[i] = "message"}
AllMessages ==
    parsed_data.messages.today \o parsed_data.messages.yesterday
    \o parsed_data.messages.this_week
OnlyMessageLine == Strip(user_context[CHOOSE i \in MessageBullets : TRUE])

\* whether d is the day before the current UTC date
IsDayBefore(d) == IsValidDate(d) /\ Ordinal(d) + 1 = Ordinal(clock.utc)

\* whether d is a day more than a week before the current UTC date
IsLongAgo(d) == IsValidDate(d) /\ Ordinal(clock.utc) - Ordinal(d) > 7

\* the recency by the three steps: the literal markers, then the ISO date of
\* the line against today and the day before, then "this_week"
RecencyBySteps(line) ==
    IF Contains(line, "TODAY:") THEN "today"
    ELSE IF Contains(line, "YESTERDAY:") THEN "yesterday"
    ELSE IF FirstIsoDate(line) # None /\ FirstIsoDate(line) = clock.utc THEN "today"
    ELSE IF FirstIsoDate(line) # None /\ IsDayBefore(FirstIsoDate(line)) THEN "yesterday"
    ELSE "this_week"

\* the same, with the fourth value the code gives to a date long ago
RecencyWithOlder(line) ==
    IF RecencyBySteps(line) = "this_week" /\ FirstIsoDate(line) # None
       /\ IsLongAgo(FirstIsoDate(line))
    THEN "older" ELSE RecencyBySteps(line)

\* C18: the recency parse_message_line gives a message is decided by a literal
\* "TODAY:" or "YESTERDAY:" in the line, also when the timestamp carries another
\* ISO date; otherwise by the ISO date of the timestamp compared with the
\* current UTC date and the day before; otherwise it is "this_week".
C18_RecencyByPrecedence ==
    (parsed_data # NoRecord /\ Cardinality(MessageBullets) = 1 /\ Len(AllMessages) = 1) =>
        AllMessages[1].recency = RecencyBySteps(OnlyMessageLine)

\* C18 as the code has it: the precedence holds, and a valid ISO date more than
\* seven days before the current UTC date gives the recency "older".
C18_RecencyByPrecedenceOrOlder ==
    (parsed_data # NoRecord /\ Cardinality(MessageBullets) = 1 /\ Len(AllMessages) = 1) =>
        AllMessages[1].recency = RecencyWithOlder(OnlyMessageLine)

\* a message marked "TODAY:" whose timestamp is dated the day before was parsed
\* and is in the today bucket
C18_Witness ==
    /\ pc = "parse_loop"
    /\ line_num = 2
    /\ LastLine = "* TODAY: From Bob: hi (2024-01-09)"
    /\ Len(parsed_data.messages.today) = 1
    /\ parsed_data.messages.today[1].recency = "today"

\* the step of get_rag_response a position belongs to: the readiness probe, the
\* context aggregation, the query classification, the response generation, the
\* return
Stage(at) ==
    IF at \in {"wait", "ready_check"} THEN 1
    ELSE IF at \in {"parse", "parse_loop"} THEN 2
    ELSE IF at = "classify" THEN 3
    ELSE IF at = "route" THEN 4
    ELSE 5

\* the steps are taken in their order, none twice and none skipped, but for the
\* return after a failed probe; the model is invoked in the response step only
StepsInOrder ==
    /\ Stage(pc') \in {Stage(pc), Stage(pc) + 1} \/ (pc = "ready_check" /\ pc' = "done")
    /\ llm_calls' # llm_calls => (pc = "route" /\ pc' = "done")

\* what each step has left behind, and when the model has been invoked
StepsDone ==
    /\ Stage(pc) \in 3..4 => parsed_data # NoRecord
    /\ Stage(pc) <= 2 => query_type = None /\ result = Pending
    /\ pc = "route" => query_type # None /\ result = Pending
    /\ Stage(pc) <= 4 => llm_calls = <<>>
    /\ pc = "done" => (Len(llm_calls) = 1 <=> query_type = "general_query")
    /\ Len(llm_calls) <= 1

\* C19: in a get_rag_response call the readiness probe, the context
\* aggregation, the query classification and the response generation occur in
\* this order, and the language model is invoked if and only if the classified
\* intent is general_query, never for another intent, whatever its buckets hold.
C19_ModelOnlyOnFallback == [](entry = "get_rag_response" => StepsDone) /\ [][StepsInOrder]_vars

\* a task query over a context without tasks was answered and the language
\* model was not invoked
C19_Witness ==
    /\ entry = "get_rag_response"
    /\ pc = "done"
    /\ query_type = "task_query"
    /\ parsed_data.tasks.total_count = 0
    /\ llm_calls = <<>>

\* the team tasks of the aggregation, each by its user's position and its own
TeamTaskSlots ==
    UNION {{<<i, k>> : k \in DOMAIN parsed_data.team_tasks[i].value} :
             i \in DOMAIN parsed_data.team_tasks}

\* how many team tasks have the given urgency
TeamUrgencyCount(u) ==
    Cardinality({s \in TeamTaskSlots : parsed_data.team_tasks[s[1]].value[s[2]].urgency = u})

\* the block headings of the recommendations
ImmediateAction == "IMMEDIATE ACTION REQUIRED:"
TodaysFocus == "Today's Focus:"
ExcellentStatus == "Excellent Status:"

\* the heading the urgencies of the team's tasks call for
HeadingDue ==
    IF TeamUrgencyCount("OVERDUE") > 0 THEN ImmediateAction
    ELSE IF TeamUrgencyCount("DUE TODAY") > 0 THEN TodaysFocus
    ELSE ExcellentStatus

\* C20: when generate_team_task_response answers over at least one team task,
\* its text ends with the immediate-action block if and only if some team task
\* is OVERDUE, otherwise with the today's-focus block if some task is DUE TODAY,
\* otherwise with the excellent-status block; and the overdue, due-today and
\* upcoming counts it reports are those of the team's tasks and sum to the
\* reported total.
C20_TeamRecommendationByUrgency ==
    (/\ entry = "get_rag_response"
     /\ pc = "done"
     /\ query_type = "team_task_query"
     /\ TeamTaskSlots # {})
    => /\ result.status = "returned"
       /\ \A h \in {ImmediateAction, TodaysFocus, ExcellentStatus} :
            Contains(result.text, h) <=> h = HeadingDue
       /\ Contains(result.text, "* Overdue tasks: " \o ToString(TeamUrgencyCount("OVERDUE")) \o "\n")
       /\ Contains(result.text, "* Due today: " \o ToString(TeamUrgencyCount("DUE TODAY")) \o "\n")
       /\ Contains(result.text,
                   "* Upcoming tasks: "
                   \o ToString(Cardinality(TeamTaskSlots) - TeamUrgencyCount("OVERDUE")
                               - TeamUrgencyCount("DUE TODAY")) \o "\n")
       /\ Contains(result.text,
                   "* Total active tasks: " \o ToString(Cardinality(TeamTaskSlots)) \o "\n")

\* a team query has been answered over a team with an overdue task and a task
\* due today
C20_Witness ==
    /\ entry = "get_rag_response"
    /\ pc = "done"
    /\ query_type = "team_task_query"
    /\ TeamUrgencyCount("OVERDUE") = 1
    /\ TeamUrgencyCount("DUE TODAY") = 1
    /\ Contains(result.text, ImmediateAction)

\* the records of all by_sender lists, in the order of the senders
RECURSIVE BySenderFrom(_, _)
BySenderFrom(by_sender, i) ==
    IF i > Len(by_sender) THEN <<>>
    ELSE by_sender[i].value \o BySenderFrom(by_sender, i + 1)

AllBySender == BySenderFrom(parsed_data.messages.by_sender, 1)

\* C26: during and after parse_user_context the counters agree with the
\* buckets: tasks.total_count is the number of records in overdue, today and
\* upcoming; messages.total_count is the number of records in today, yesterday
\* and this_week and the number of records in the by_sender lists; and every
\* parsed message (also one of recency "older") is in one recency bucket and
\* in one by_sender list, the list of its sender.
C26_CountersAgreeWithBuckets ==
    parsed_data # NoRecord =>
        /\ parsed_data.tasks.total_count = Len(AllTasks)
        /\ parsed_data.messages.total_count = Len(AllMessages)
        /\ parsed_data.messages.total_count = Len(AllBySender)
        /\ parsed_data.messages.total_count = Cardinality(MessageBullets)
        /\ \A k \in DOMAIN AllBySender :
            CountIn(AllMessages, AllBySender[k]) = CountIn(AllBySender, AllBySender[k])
        /\ \A i \in DOMAIN parsed_data.messages.by_sender :
            \A k \in DOMAIN parsed_data.messages.by_sender[i].value :
                parsed_data.messages.by_sender[i].value[k].sender_name
                    = parsed_data.messages.by_sender[i].key
        /\ \A i, j \in DOMAIN parsed_data.messages.by_sender :
            parsed_data.messages.by_sender[i].key = parsed_data.messages.by_sender[j].key
                => i = j

\* parse_user_context has returned with a message of today and a message of
\* recency "older", which is in the this_week bucket
C26_Witness ==
    /\ entry = "parse_user_context"
    /\ pc = "done"
    /\ parsed_data.tasks.total_count = 0
    /\ parsed_data.messages.total_count = 2
    /\ Len(parsed_data.messages.today) = 1
    /\ Len(parsed_data.messages.this_week) = 1
    /\ parsed_data.messages.this_week[1].recency = "older"

\* the lines consumed so far that were stored as team tasks
TeamTaskLines == {j \in 1..line_num : branches[j] = "team_task"}

\* the user-marker lines with a name before line j, and the name of the latest
MarkersBefore(j) == {k \in 1..(j - 1) : MarkerName(Strip(user_context[k])) # None}
MarkedUser(j) ==
    IF MarkersBefore(j) = {} THEN None
    ELSE MarkerName(Strip(user_context[Max(MarkersBefore(j))]))

\* C27: during and after parse_user_context, team_members has no duplicates and
\* holds exactly the keys of team_tasks; every task stored under team_tasks[u]
\* has assigned_to = u; and the tasks stored under u are those of the bullets
\* whose most recent user-marker line before them names u.
C27_TeamMembersAreTeamTaskKeys ==
    parsed_data # NoRecord =>
        /\ \A i, j \in DOMAIN parsed_data.team_members :
            parsed_data.team_members[i] = parsed_data.team_members[j] => i = j
        /\ Members(parsed_data.team_members) = DictKeys(parsed_data.team_tasks)
        /\ Len(parsed_data.team_members) = Len(parsed_data.team_tasks)
        /\ \A i \in DOMAIN parsed_data.team_tasks :
            /\ \A k \in DOMAIN parsed_data.team_tasks[i].value :
                parsed_data.team_tasks[i].value[k].assigned_to = parsed_data.team_tasks[i].key
            /\ Len(parsed_data.team_tasks[i].value)
               = Cardinality({j \in TeamTaskLines : MarkedUser(j) = parsed_data.team_tasks[i].key})

\* two users were named one after the other and the bullet after them is stored
\* under the second
C27_Witness ==
    /\ pc = "parse_loop"
    /\ line_num = 3
    /\ parsed_data.team_members = <<"Alice", "Bob">>
    /\ TeamTaskLines = {3}
    /\ DictGet(parsed_data.team_tasks, "Alice") = <<>>
    /\ Len(DictGet(parsed_data.team_tasks, "Bob")) = 1

\* whether line k of the context is a recognized section header
HeaderAt(k) ==
    \/ IsPersonalHeader(Strip(user_context[k]))
    \/ IsTeamHeader(Strip(user_context[k]))
    \/ IsMessageHeader2(Strip(user_context[k]))

\* the section headers and the user-marker lines with a name before line j
EventsBefore(j) ==
    {k \in 1..(j - 1) : HeaderAt(k) \/ MarkerName(Strip(user_context[k])) # None}

\* C28: in parse_user_context every recognized section header clears the
\* current user, so that a bullet is stored as a team task only when the latest
\* header or user-marker line before it is a user marker: no task is attributed
\* to a user whose marker came before the most recent section header.
C28_HeaderClearsUser ==
    parsed_data # NoRecord =>
        /\ (pc = "parse_loop" /\ line_num > 0 /\ HeaderAt(line_num)) => current_user = None
        /\ \A j \in TeamTaskLines :
            /\ EventsBefore(j) # {}
            /\ ~HeaderAt(Max(EventsBefore(j)))

\* a team header came after the marker of a user, and the bullet after the
\* header was not attributed to that user
C28_Witness ==
    /\ pc = "parse_loop"
    /\ line_num = 3
    /\ MarkerName(Strip(user_context[1])) = "Alice"
    /\ Strip(user_context[2]) = "TEAM TASKS:"
    /\ Strip(user_context[3]) = "* Fix bug"
    /\ current_user = None
    /\ DictGet(parsed_data.team_tasks, "Alice") = <<>>

\* the section a line with a section-header phrase opens
SectionOpened(line) ==
    IF IsPersonalHeader(line) THEN "tasks"
    ELSE IF IsTeamHeader(line) THEN "team_tasks"
    ELSE "messages"

C30_SecondMessageHeaderDead ==
    \A i \in 1..Len(branches) : branches[i] # "message_header_2"

\* the days-overdue figure the claim gives a due date: 0 for "No date" and for
\* what is no date of the calendar, else the days from the due date to today
DaysFigure(due_date) ==
    IF due_date = "No date" \/ ~IsValidDate(due_date) THEN 0
    ELSE Ordinal(clock.local) - Ordinal(due_date)

\* C22: handle_overdue_tasks never raises, and the days-overdue figure it shows
\* for a task is 0 when the due date is "No date" or cannot be parsed as
\* YYYY-MM-DD, and otherwise the whole number of days from the due date to now.
C22_DaysOverdueZeroOnFailure ==
    (pc = "done" /\ result.by = "handle_overdue_tasks") =>
        /\ result.status = "returned"
        /\ \A k \in DOMAIN parsed_data.tasks.overdue :
            Contains(result.text,
                     "**Due Date:** " \o parsed_data.tasks.overdue[k].due_date \o "  ("
                     \o ToString(DaysFigure(parsed_data.tasks.overdue[k].due_date))
                     \o " days overdue)")

\* the overdue response was given for a task whose due date is no date of the
\* calendar, with the figure 0
C22_Witness ==
    /\ pc = "done"
    /\ result.by = "handle_overdue_tasks"
    /\ Len(parsed_data.tasks.overdue) = 1
    /\ parsed_data.tasks.overdue[1].due_date = "2024-02-30"
    /\ Contains(result.text, "(0 days overdue)")

\* whether the full name or the first name of a team member occurs in the query
PersonNamed ==
    \E i \in DOMAIN parsed_data.team_members :
        \/ Contains(Lower(query), Lower(parsed_data.team_members[i]))
        \/ Contains(Lower(query), Lower(FirstWord(parsed_data.team_members[i])))

\* the handler the precedence of the claim picks
HandlerDue ==
    IF PersonNamed THEN "handle_person_specific_messages"
    ELSE IF Contains(Lower(query), "today") THEN "handle_today_messages"
    ELSE IF Contains(Lower(query), "yesterday") THEN "handle_yesterday_messages"
    ELSE "handle_general_messages"

\* C24: generate_message_response answers by the person-specific handler if the
\* full name or the first name of a team member occurs in the query, else by
\* the handler of today's messages if the query holds "today", else by that of
\* yesterday's if it holds "yesterday", else by the aggregate summary with its
\* counts; a named person wins over the words today and yesterday.
C24_MessageHandlerPrecedence ==
    (entry = "generate_message_response" /\ pc = "done") =>
        /\ result.status = "returned"
        /\ result.by = HandlerDue
        /\ (result.by = "handle_general_messages" /\ parsed_data.messages.total_count > 0) =>
            /\ Contains(result.text,
                        "Message Summary (" \o ToString(parsed_data.messages.total_count)
                        \o " total messages)")
            /\ parsed_data.messages.today # <<>> =>
                Contains(result.text, "**Today:** "
                         \o ToString(Len(parsed_data.messages.today)) \o " messages")
            /\ parsed_data.messages.yesterday # <<>> =>
                Contains(result.text, "**Yesterday:** "
                         \o ToString(Len(parsed_data.messages.yesterday)) \o " messages")
            /\ Contains(result.text, "**Most active contacts:**")

\* a query that names a team member by first name and holds "today" was answered
\* by the person-specific handler
C24_Witness ==
    /\ entry = "generate_message_response"
    /\ pc = "done"
    /\ query = "Message from Alice today"
    /\ parsed_data.team_members = <<"Bob", "Alice Smith">>
    /\ parsed_data.messages.total_count = 2
    /\ result.by = "handle_person_specific_messages"

\* C21: a body of POST /generate-insight without "context" or without "query"
\* is handled as no data: the missing field is defaulted to an empty value,
\* get_rag_response returns a text as it does for empty data, and the endpoint
\* answers with a result, not with an error.
C21_MissingFieldIsNoData ==
    (/\ entry = "generate_insight"
     /\ pc = "done"
     /\ ~(payload.has_query /\ payload.has_context))
    => /\ result.status = "returned"
       /\ response.kind = "result"

\* C23: whenever get_rag_response has returned normally, POST /generate-insight
\* answers with a "result" field that carries the generated text, not with an
\* "error" field.
C23_ReturnedTextIsResult ==
    (entry = "generate_insight" /\ pc = "done" /\ result.status = "returned")
    => /\ response.kind = "result"
       /\ response.text = result.text

(***************************************************************************)
(* POST /interpret: interpret(request) and interpret_query(query, hints)   *)
(***************************************************************************)

\* the word lists of interpret_query, in the order any() tries them
MessageWords == <<"message", "messages", "chat", "said", "told">>
TaskWords == <<"task", "complete", "work on", "priority", "due">>

\* {"type": "me"}, which has no "value", and {"type": "name", "value": name}
TargetMe == [type |-> "me", value |-> None]
TargetName(name) == [type |-> "name", value |-> name]

\* the hints of a body: absent, null, a non-empty list, or a dict whose
\* "team_member_names" is absent, null or a list of names (None for a null)
Hints(kind, names_kind, names) ==
    [kind |-> kind, names_kind |-> names_kind, names |-> names]
NoHints == Hints("missing", "missing", <<>>)

\* hints or {}: a missing field was already defaulted to {} by body.get
HintsOrEmpty(hints) ==
    IF hints.kind \in {"missing", "null"} THEN Hints("dict", "missing", <<>>) ELSE hints

\* the loop over names from names[i] on: the first name whose lower case is in
\* query_lower; name.lower() of a null raises AttributeError
RECURSIVE TargetUserFrom(_, _, _)
TargetUserFrom(names, query_lower, i) ==
    IF i > Len(names) THEN Returned("interpret_query", TargetMe)
    ELSE IF names[i] = None THEN Raised("interpret_query", "AttributeError")
    ELSE IF Contains(query_lower, Lower(names[i]))
         THEN Returned("interpret_query", TargetName(names[i]))
    ELSE TargetUserFrom(names, query_lower, i + 1)

\* the action of a lower-cased query: the message words are tried first
InterpretActionTasksFirst(query_lower) ==
    IF \E i \in 1..Len(TaskWords) : Contains(query_lower, TaskWords[i])
    THEN "query_tasks"
    ELSE IF \E i \in 1..Len(MessageWords) : Contains(query_lower, MessageWords[i])
    THEN "query_messages"
    ELSE "general_question"

InterpretAction(query_lower) ==
    IF \E i \in 1..Len(MessageWords) : Contains(query_lower, MessageWords[i])
    THEN "query_messages"
    ELSE IF \E i \in 1..Len(TaskWords) : Contains(query_lower, TaskWords[i])
    THEN "query_tasks"
    ELSE "general_question"

\* the dict interpret_query returns; due_bucket is "<Absent>" in the default
\* answer of the endpoint, whose filters have no such key
Interpretation(action, target_user, natural, due_bucket) ==
    [action |-> action, target_user |-> target_user,
     natural |-> natural, due_bucket |-> due_bucket]

\* interpret_query(query, hints)
InterpretQuery(q, hints) ==
    IF HintsOrEmpty(hints).kind # "dict"
    THEN Raised("interpret_query", "AttributeError")
    ELSE IF q = None
    THEN Raised("interpret_query", "AttributeError")
    ELSE IF HintsOrEmpty(hints).names_kind = "null"
    THEN Raised("interpret_query", "TypeError")
    ELSE IF TargetUserFrom(HintsOrEmpty(hints).names, Lower(q), 1).status = "raised"
    THEN TargetUserFrom(HintsOrEmpty(hints).names, Lower(q), 1)
    ELSE Returned("interpret_query",
                  Interpretation(InterpretAction(Lower(q)),
                                 TargetUserFrom(HintsOrEmpty(hints).names, Lower(q), 1).text,
                                 q,
                                 IF Contains(Lower(q), "today") THEN "today" ELSE None))

\* the answer of the except clause of interpret
DefaultInterpretation == Interpretation("general_question", TargetMe, "", "<Absent>")

\* interpret(request): the body's fields, interpret_query, and the answer
Interpret ==
    /\ entry = "interpret"
    /\ pc = "interpret"
    /\ query' = IF payload.has_query THEN payload.query ELSE ""
    /\ result' = InterpretQuery(query', payload.hints)
    /\ response' = IF result'.status = "raised"
                   THEN [kind |-> "result", text |-> DefaultInterpretation]
                   ELSE [kind |-> "result", text |-> result'.text]
    /\ pc' = "done"
    /\ UNCHANGED <<entry, user_context, member_hint, timeout, probes, probe,
                   ollama_ready, line_num, current_section, current_user,
                   parsed_data, branches, query_type, clock, llm_calls,
                   previous, payload>>

\* the queries of the bodies: words of both lists, names in either case, a null
InterpretQueries ==
    {"Show messages from Alice", "what tasks are due today",
     "message Bob about the task due today", "did bob complete it",
     "tell me a joke", "chat", "What is the priority for ALICE and Bob",
     "residue", "what alice told bob", "", None}

InterpretNames ==
    {<<>>, <<"Alice">>, <<"alice">>, <<"Bob", "Alice">>, <<"Alice", "Bob">>,
     <<None, "Alice">>, <<"Alice", None>>, <<"">>}

InterpretHints ==
    {NoHints, Hints("null", "missing", <<>>), Hints("list", "missing", <<>>),
     Hints("dict", "missing", <<>>), Hints("dict", "null", <<>>)}
    \cup {Hints("dict", "list", names) : names \in InterpretNames}

InterpretBodies ==
    {[has_query |-> TRUE, query |-> q, hints |-> h] :
        q \in InterpretQueries, h \in InterpretHints}
    \cup {[has_query |-> FALSE, query |-> "", hints |-> h] : h \in InterpretHints}

\* POST /interpret with a body
InitInterpret ==
    /\ entry = "interpret"
    /\ pc = "interpret"
    /\ timeout = DefaultTimeout
    /\ query = ""
    /\ user_context = EmptyDict
    /\ member_hint = <<>>
    /\ clock = Clock
    /\ probes = 0
    /\ probe = None
    /\ ollama_ready = FALSE
    /\ line_num = 0
    /\ current_section = None
    /\ current_user = None
    /\ parsed_data = NoRecord
    /\ branches = <<>>
    /\ query_type = None
    /\ llm_calls = <<>>
    /\ result = Pending
    /\ previous = NoRecord
    /\ payload \in InterpretBodies
    /\ response = NoResponse

SpecInterpret == InitInterpret /\ [][Interpret]_vars

\* the names of the hints of the body, as the claim reads them
HintedNames == HintsOrEmpty(payload.hints).names

\* the places of the hinted names whose lower case occurs in the lower-cased query
NamedAt ==
    {i \in 1..Len(HintedNames) : Contains(Lower(query), Lower(HintedNames[i]))}

\* the action the claim gives the query
ActionDue ==
    IF \E w \in {"message", "messages", "chat", "said", "told"} : Contains(Lower(query), w)
    THEN "query_messages"
    ELSE IF \E w \in {"task", "complete", "work on", "priority", "due"} :
                Contains(Lower(query), w)
    THEN "query_tasks"
    ELSE "general_question"

\* C25: interpret_query returns query_messages whenever the query holds a
\* message word, also beside task words, query_tasks when it holds task words
\* only, and general_question otherwise; target_user is the first hinted name
\* contained in the query, else {type: me}; and when interpret_query raises,
\* the endpoint answers with the default general_question result, not an error.
C25_InterpretActionAndTarget ==
    (entry = "interpret" /\ pc = "done") =>
        /\ response.kind = "result"
        /\ result.status = "raised" =>
            /\ response.text.action = "general_question"
            /\ response.text.target_user = [type |-> "me", value |-> None]
            /\ response.text.natural = ""
        /\ result.status = "returned" =>
            /\ response.text = result.text
            /\ result.text.action = ActionDue
            /\ result.text.target_user =
                IF NamedAt = {} THEN [type |-> "me", value |-> None]
                ELSE [type |-> "name", value |-> HintedNames[Min(NamedAt)]]

\* a query with a message word and task words, naming the second hinted name
\* only, was interpreted as a query for messages of that name
C25_Witness ==
    /\ entry = "interpret"
    /\ pc = "done"
    /\ query = "message Bob about the task due today"
    /\ payload.hints.names = <<"Alice", "Bob">>
    /\ result.status = "returned"
    /\ result.text.action = "query_messages"
    /\ result.text.target_user.value = "Bob"

\* a body whose hints are a list made interpret_query raise, and the endpoint
\* answered with the default result
C25_WitnessRaised ==
    /\ entry = "interpret"
    /\ pc = "done"
    /\ payload.hints.kind = "list"
    /\ result.status = "raised"
    /\ response.text.action = "general_question"

====
